---- MODULE Spec2Model ----
(***************************************************************************)
(* State-machine model of adk-redis: the semantic cache callbacks          *)
(* (cache/llm_cache.py, cache/tool_cache.py) and the hybrid-search         *)
(* version shim (tools/search/hybrid.py).                                  *)
(*                                                                         *)
(* Python strings are TLA+ strings (\o is concatenation), None is the      *)
(* string constant None, lists are sequences, objects are records.         *)
(* Each subsystem has its own variables and its own specification; a       *)
(* specification leaves the other subsystems' variables unchanged.         *)
(***************************************************************************)
EXTENDS Integers, Sequences, FiniteSets, TLC

VARIABLES
  llm_config,        \* LLMResponseCache._config
  session_events,    \* callback context -> authors of session.events, in order
  _pending_prompts,  \* LLMResponseCache._pending_prompts: session key -> cache key
  inflight,          \* callback context -> the model request awaiting its response
  llm_last           \* what the last callback call was given, did and returned

llm_vars == <<llm_config, session_events, _pending_prompts, inflight, llm_last>>

VARIABLES
  tool_config,       \* ToolCache._config
  _pending_calls,    \* ToolCache._pending_calls: str(id(tool_context)) -> cache key
  tool_contexts,     \* str(id(tool_context)) -> the live ToolContext at that address
  tool_last          \* what the last tool callback call was given, did and returned

tool_vars == <<tool_config, _pending_calls, tool_contexts, tool_last>>

VARIABLES
  key_in,            \* the arguments of two LLMResponseCache._build_cache_key calls
  key_out            \* the keys the two calls returned

key_vars == <<key_in, key_out>>

VARIABLES
  hybrid_env,        \* the installed redisvl module and the index given to the tool
  hybrid_tool,       \* the RedisHybridSearchTool last constructed, if any
  hybrid_last,       \* what the last call was given, did and returned
  hybrid_query       \* the query _build_query built last: its class and kwargs

hybrid_vars == <<hybrid_env, hybrid_tool, hybrid_last, hybrid_query>>

VARIABLES
  search_last        \* the last run_async of a search tool: its tool, its
                     \* arguments, the calls it made and what came out of it

search_vars == <<search_last>>

VARIABLES
  wm_config,         \* RedisWorkingMemorySessionService._config
  wm_backend,        \* the working memories the Agent Memory Server stores
  wm_session,        \* the Session object the caller holds
  wm_sent,           \* the messages sent to the server, in the order sent
  wm_dict,           \* the service's __dict__ entry "_client"
  wm_last            \* what the last call was given, did and returned

wm_vars == <<wm_config, wm_backend, wm_session, wm_sent, wm_dict, wm_last>>

VARIABLES
  ltm_config,        \* RedisLongTermMemoryService._config
  ltm_client,        \* the MemoryAPIClient cached under _client: 0 for none,
                     \* else the number of the client
  ltm_closed,        \* for every client created so far, in order of creation,
                     \* how often its close was called
  ltm_last           \* what the last call was given, did and returned

ltm_vars == <<ltm_config, ltm_client, ltm_closed, ltm_last>>

VARIABLES
  build_tool,        \* the search tool whose queries are built
  build_config,      \* the tool's _config
  build_log          \* the queries built so far: the args of the call, the
                     \* query, and _config as the call found it

build_vars == <<build_tool, build_config, build_log>>

\* the variables a callback of one subsystem leaves alone
non_llm_vars == <<tool_vars, key_vars, hybrid_vars, search_vars, wm_vars, ltm_vars, build_vars>>
non_tool_vars == <<llm_vars, key_vars, hybrid_vars, search_vars, wm_vars, ltm_vars, build_vars>>
non_key_vars == <<llm_vars, tool_vars, hybrid_vars, search_vars, wm_vars, ltm_vars, build_vars>>
non_hybrid_vars == <<llm_vars, tool_vars, key_vars, search_vars, wm_vars, ltm_vars, build_vars>>
non_search_vars ==
  <<llm_vars, tool_vars, key_vars, hybrid_vars, wm_vars, ltm_vars, build_vars>>
non_wm_vars ==
  <<llm_vars, tool_vars, key_vars, hybrid_vars, search_vars, ltm_vars, build_vars>>
non_ltm_vars ==
  <<llm_vars, tool_vars, key_vars, hybrid_vars, search_vars, wm_vars, build_vars>>
non_build_vars ==
  <<llm_vars, tool_vars, key_vars, hybrid_vars, search_vars, wm_vars, ltm_vars>>

(***************************************************************************)
(* Bounds of the model.                                                    *)
(***************************************************************************)
\* longest session.events list
MaxEvents == 2

(***************************************************************************)
(* Python values.                                                          *)
(***************************************************************************)
None == "<None>"

\* str.join: sep.join(parts)
RECURSIVE Join(_, _)
Join(sep, parts) ==
  IF Len(parts) = 0 THEN ""
  ELSE IF Len(parts) = 1 THEN parts[1]
  ELSE parts[1] \o sep \o Join(sep, Tail(parts))

\* list.append
Append1(parts, cond, s) == IF cond THEN Append(parts, s) ELSE parts

(***************************************************************************)
(* LLMResponseCache: the inputs.                                           *)
(***************************************************************************)
\* LLMResponseCacheConfig: four booleans
LLMResponseCacheConfig ==
  [first_message_only : BOOLEAN, include_app_name : BOOLEAN,
   include_user_id : BOOLEAN, include_session_id : BOOLEAN]

\* the configurations the callbacks are run under: the default one, and those
\* that differ from it in first_message_only or include_session_id
CallbackConfigs ==
  { c \in LLMResponseCacheConfig : c.include_app_name /\ c.include_user_id }

\* callback_context.session is None
NoSession == [app_name |-> None, user_id |-> None, id |-> None]

\* the sessions the callbacks are called for (callback_context.session)
Sessions ==
  { [app_name |-> "shop", user_id |-> "u1", id |-> "s1"] }

CallbackContexts == Sessions \cup {NoSession}

\* event.author values
Authors == {"user", "agent"}

\* prompts of the users
Prompts == {"hi", "bye"}

\* Content of a request: role and the Part.text of each part, None for a part
\* without text (a function response)
UserContent(parts) == [role |-> "user", parts |-> parts]
ModelContent(parts) == [role |-> "model", parts |-> parts]

\* llm_request.contents: no contents, no user content, user contents without
\* text, one prompt, a prompt behind empty parts, a prompt followed by a
\* function response, two prompts in one content, two prompts in two contents
LlmRequests ==
  { <<>>,
    <<ModelContent(<<"hi">>)>>,
    <<UserContent(<<>>)>>,
    <<UserContent(<<None, "">>)>>,
    <<UserContent(<<"hi">>)>>,
    <<UserContent(<<"", None, "bye">>)>>,
    <<UserContent(<<"bye">>), ModelContent(<<None>>), UserContent(<<None>>)>>,
    <<UserContent(<<"bye", "hi">>), ModelContent(<<"bye">>)>>,
    <<UserContent(<<"hi">>), ModelContent(<<"fine">>), UserContent(<<"bye">>)>> }

\* what provider.check may return: None or a CacheEntry with a stored response
\* (the provider matches by semantic similarity: any stored response may match)
CachedResponses == {"cached", ""}
NoEntry == [response |-> None]
CacheEntries == [response : CachedResponses]

\* Part of a response: text (None for a part without text) and function_call
TextPart(text) == [text |-> text, function_call |-> FALSE]
CallPart == [text |-> None, function_call |-> TRUE]

\* LlmResponse.content.parts
ResponsePartLists ==
  { <<>>, <<TextPart("ok")>>, <<TextPart("")>>, <<TextPart(None)>>, <<CallPart>>,
    <<TextPart(None), TextPart("ok")>>, <<TextPart("ok"), TextPart("fine")>>,
    <<TextPart("ok"), CallPart>>, <<CallPart, TextPart("fine")>> }

\* LlmResponse: error_message (None, empty or a message) and content
\* (has_content = FALSE is content None)
ErrorMessages == {None, "", "quota exceeded"}
LlmResponses ==
  [error_message : ErrorMessages, has_content : {TRUE}, parts : ResponsePartLists]
  \cup [error_message : ErrorMessages, has_content : {FALSE}, parts : {<<>>}]

\* Python truthiness of an Optional[str]
Truthy(s) == s # None /\ s # ""

(***************************************************************************)
(* LLMResponseCache: the methods.                                          *)
(***************************************************************************)
\* _is_first_message: no session, no events, or no event authored by "user"
RECURSIVE CountUser(_)
CountUser(events) ==
  IF Len(events) = 0 THEN 0
  ELSE (IF Head(events) = "user" THEN 1 ELSE 0) + CountUser(Tail(events))

_is_first_message(ctx) ==
  IF ctx = NoSession \/ Len(session_events[ctx]) = 0 THEN TRUE
  ELSE CountUser(session_events[ctx]) = 0

\* a variant that appends the user part before the app part
_build_cache_key_UserFirst(config, prompt, session) ==
  LET p0 == <<>>
      p1 == Append1(p0, config.include_user_id /\ session # NoSession,
                    "user:" \o session.user_id)
      p2 == Append1(p1, config.include_app_name /\ session # NoSession,
                    "app:" \o session.app_name)
      p3 == Append1(p2, config.include_session_id /\ session # NoSession,
                    "session:" \o session.id)
      parts == Append(p3, prompt)
  IN Join(" | ", parts)

\* _build_cache_key
_build_cache_key(config, prompt, session) ==
  LET p0 == <<>>
      p1 == Append1(p0, config.include_app_name /\ session # NoSession,
                    "app:" \o session.app_name)
      p2 == Append1(p1, config.include_user_id /\ session # NoSession,
                    "user:" \o session.user_id)
      p3 == Append1(p2, config.include_session_id /\ session # NoSession,
                    "session:" \o session.id)
      parts == Append(p3, prompt)
  IN Join(" | ", parts)

\* the sessions and prompts _build_cache_key is called with, one at a time: two
\* apps, three users, two sessions each, and names and prompts that contain
\* the separator
KeySessions ==
  [app_name : {"shop", "bank"}, user_id : {"u1", "u2", "u1 | x"},
   id : {"s1", "s2"}] \cup {NoSession}
KeyPrompts == {"hi", "x | hi"}

\* two calls of _build_cache_key under one configuration, for one prompt
BuildKeys ==
  /\ ~key_out.done
  /\ key_out' =
       [done |-> TRUE,
        a |-> _build_cache_key(key_in.config, key_in.prompt, key_in.a),
        b |-> _build_cache_key(key_in.config, key_in.prompt, key_in.b)]
  /\ UNCHANGED <<key_in, non_key_vars>>

\* the inner loop of _extract_prompt: the first part with a non-empty text
RECURSIVE FirstText(_)
FirstText(parts) ==
  IF Len(parts) = 0 THEN None
  ELSE IF Truthy(Head(parts)) THEN Head(parts)
  ELSE FirstText(Tail(parts))

\* _extract_prompt: walk contents from the last to the first
RECURSIVE ExtractFrom(_, _)
ExtractFrom(contents, i) ==
  IF i = 0 THEN None
  ELSE IF contents[i].role = "user" /\ Len(contents[i].parts) > 0
          /\ FirstText(contents[i].parts) # None
       THEN FirstText(contents[i].parts)
       ELSE ExtractFrom(contents, i - 1)

\* a variant that reads the last content only, instead of walking back
_extract_prompt_LastContentOnly(llm_request) ==
  IF Len(llm_request) = 0 THEN None
  ELSE IF llm_request[Len(llm_request)].role = "user"
       THEN FirstText(llm_request[Len(llm_request)].parts)
       ELSE None

_extract_prompt(llm_request) ==
  IF Len(llm_request) = 0 THEN None
  ELSE ExtractFrom(llm_request, Len(llm_request))

\* _extract_response_text
RECURSIVE FirstPartText(_)
FirstPartText(parts) ==
  IF Len(parts) = 0 THEN None
  ELSE IF Truthy(Head(parts).text) THEN Head(parts).text
  ELSE FirstPartText(Tail(parts))

_extract_response_text(llm_response) ==
  IF ~llm_response.has_content \/ Len(llm_response.parts) = 0 THEN None
  ELSE FirstPartText(llm_response.parts)

\* _get_session_key
_get_session_key(session) ==
  IF session # NoSession
  THEN session.app_name \o ":" \o session.user_id \o ":" \o session.id
  ELSE "default"

SessionKeys == { _get_session_key(c) : c \in CallbackContexts }

\* a variant that looks at the first part only
AnyFunctionCall_FirstPartOnly(parts) ==
  Len(parts) > 0 /\ Head(parts).function_call

\* the loop of after_model_callback over the parts: some part is a function call
RECURSIVE AnyFunctionCall(_)
AnyFunctionCall(parts) ==
  IF Len(parts) = 0 THEN FALSE
  ELSE IF Head(parts).function_call THEN TRUE
  ELSE AnyFunctionCall(Tail(parts))

(***************************************************************************)
(* What the callers know about a call, stated without the cache's own      *)
(* helpers: the facts the properties are stated over.                      *)
(***************************************************************************)
\* the session has no event authored by "user" (no session, no events: none)
NoUserEvent(ctx) ==
  \/ ctx = NoSession
  \/ \A i \in 1..Len(session_events[ctx]) : session_events[ctx][i] # "user"

\* some user content of the request has a part with a non-empty text
HasUserPrompt(llm_request) ==
  \E i \in 1..Len(llm_request) :
    /\ llm_request[i].role = "user"
    /\ \E j \in 1..Len(llm_request[i].parts) :
         llm_request[i].parts[j] \notin {None, ""}

\* the response has a non-empty error message
HasError(llm_response) == llm_response.error_message \notin {None, ""}

\* some part of the response is a function call
HasFunctionCall(llm_response) ==
  /\ llm_response.has_content
  /\ \E j \in 1..Len(llm_response.parts) : llm_response.parts[j].function_call

\* some part of the response has a non-empty text
HasText(llm_response) ==
  /\ llm_response.has_content
  /\ \E j \in 1..Len(llm_response.parts) :
       llm_response.parts[j].text \notin {None, ""}

(***************************************************************************)
(* LLMResponseCache: the callbacks.                                        *)
(***************************************************************************)
\* return values of the callbacks
RetNone == [kind |-> "None"]
LlmResponse(text) ==
  [kind |-> "LlmResponse", role |-> "model", parts |-> <<text>>]

\* no model request is awaiting its response in this context
NoRequest == [active |-> FALSE, first |-> FALSE, key |-> None]

\* the record of a step that is no callback call
LlmIdle(op, ctx) ==
  [op |-> op, ctx |-> ctx, first |-> FALSE, found |-> FALSE,
   checked |-> FALSE, check_key |-> None, entry |-> NoEntry,
   stored |-> FALSE, store_key |-> None, store_text |-> None,
   ret |-> RetNone, has_error |-> FALSE, has_fc |-> FALSE, has_text |-> FALSE,
   req_first |-> FALSE, req_key |-> None]

\* before_model_callback returns None before provider.check: the gate or no prompt
BeforeSkips(ctx, llm_request) ==
  /\ llm_last' = [LlmIdle("before", ctx) EXCEPT
                    !.first = NoUserEvent(ctx),
                    !.found = HasUserPrompt(llm_request)]
  /\ inflight' = [inflight EXCEPT ![ctx] =
                    [active |-> TRUE, first |-> NoUserEvent(ctx), key |-> None]]
  /\ UNCHANGED _pending_prompts

\* before_model_callback after provider.check returned cache_entry
BeforeChecked(ctx, llm_request, cache_key, cache_entry) ==
  LET seen == [LlmIdle("before", ctx) EXCEPT
                 !.first = NoUserEvent(ctx),
                 !.found = HasUserPrompt(llm_request),
                 !.checked = TRUE, !.check_key = cache_key,
                 !.entry = cache_entry]
  IN IF cache_entry # NoEntry
     THEN \* cache hit: the model is not called
          /\ llm_last' = [seen EXCEPT !.ret = LlmResponse(cache_entry.response)]
          /\ UNCHANGED <<_pending_prompts, inflight>>
     ELSE \* cache miss: remember the key for after_model_callback
          /\ llm_last' = seen
          /\ _pending_prompts' =
               [_pending_prompts EXCEPT ![_get_session_key(ctx)] = cache_key]
          /\ inflight' = [inflight EXCEPT ![ctx] =
               [active |-> TRUE, first |-> NoUserEvent(ctx), key |-> cache_key]]

before_model_callback(ctx, llm_request) ==
  /\ ~inflight[ctx].active
  /\ IF llm_config.first_message_only /\ ~_is_first_message(ctx)
     THEN BeforeSkips(ctx, llm_request)
     ELSE LET prompt == _extract_prompt(llm_request) IN
          IF ~Truthy(prompt)
          THEN BeforeSkips(ctx, llm_request)
          ELSE \E cache_entry \in {NoEntry} \cup CacheEntries :
                 BeforeChecked(ctx, llm_request,
                               _build_cache_key(llm_config, prompt, ctx),
                               cache_entry)
  /\ UNCHANGED <<llm_config, session_events, non_llm_vars>>

\* after_model_callback decides to call provider.store
StoresResponse(cache_key, llm_response) ==
  IF ~Truthy(cache_key) THEN FALSE
  ELSE IF Truthy(llm_response.error_message) THEN FALSE
  ELSE IF llm_response.has_content /\ Len(llm_response.parts) > 0
          /\ AnyFunctionCall(llm_response.parts) THEN FALSE
  ELSE Truthy(_extract_response_text(llm_response))

after_model_callback(ctx, llm_response) ==
  /\ inflight[ctx].active
  /\ LET session_key == _get_session_key(ctx)
         cache_key == _pending_prompts[session_key]
         stores == StoresResponse(cache_key, llm_response)
     IN /\ _pending_prompts' = [_pending_prompts EXCEPT ![session_key] = None]
        /\ llm_last' = [LlmIdle("after", ctx) EXCEPT
             !.has_error = HasError(llm_response),
             !.has_fc = HasFunctionCall(llm_response),
             !.has_text = HasText(llm_response),
             !.req_first = inflight[ctx].first,
             !.req_key = inflight[ctx].key,
             !.stored = stores,
             !.store_key = IF stores THEN cache_key ELSE None,
             !.store_text = IF stores THEN _extract_response_text(llm_response)
                            ELSE None]
  /\ inflight' = [inflight EXCEPT ![ctx] = NoRequest]
  /\ UNCHANGED <<llm_config, session_events, non_llm_vars>>

\* the model call raises: the framework never calls after_model_callback for it
ModelCallFails(ctx) ==
  /\ inflight[ctx].active
  /\ inflight' = [inflight EXCEPT ![ctx] = NoRequest]
  /\ llm_last' = LlmIdle("fail", ctx)
  /\ UNCHANGED <<llm_config, session_events, _pending_prompts, non_llm_vars>>

\* the session service appends an event to the session
AppendEvent(ctx, author) ==
  /\ Len(session_events[ctx]) < MaxEvents
  /\ session_events' = [session_events EXCEPT ![ctx] = Append(@, author)]
  /\ llm_last' = LlmIdle("event", ctx)
  /\ UNCHANGED <<llm_config, _pending_prompts, inflight, non_llm_vars>>

(***************************************************************************)
(* ToolCache: the inputs.                                                  *)
(***************************************************************************)
ToolNames == {"search", "pay"}

\* ToolCacheConfig.tool_names: None, or a set of names
AllTools == [is_none |-> TRUE, names |-> {}]
OnlyTools(names) == [is_none |-> FALSE, names |-> names]

\* ToolCacheConfig: the default one, one with every include_* flag set, one
\* with none set, each with tool_names None, empty or {"search"}
ToolCacheConfig ==
  [tool_names : {AllTools, OnlyTools({}), OnlyTools({"search"})},
   include_app_name : BOOLEAN, include_user_id : BOOLEAN,
   include_session_id : BOOLEAN]

ToolCallbackConfigs ==
  { c \in ToolCacheConfig :
      /\ c.include_app_name = c.include_user_id
      /\ c.include_session_id => c.include_user_id
      /\ c.tool_names = OnlyTools({}) => ~c.include_session_id }

\* the session a ToolContext belongs to: two users of one app
ToolCallers ==
  { [app_name |-> "shop", user_id |-> "u1", session_id |-> "s1"],
    [app_name |-> "shop", user_id |-> "u2", session_id |-> "s2"] }

\* a dict is the sequence of its items in insertion order, each <<key, value>>
\* with the value as JSON text
ToolArgs ==
  { << <<"city", "\"Paris\"">> >>,
    << <<"days", "3">>, <<"city", "\"Paris\"">> >> }

\* tool_response dicts
ToolResponses ==
  { << <<"status", "\"ok\"">> >>,
    << <<"total", "3">>, <<"items", "[]">> >> }

\* str(id(tool_context)): the addresses a ToolContext may be allocated at
ToolContextIds == {"140001", "140002"}

\* no ToolContext lives at the address
NoToolContext ==
  [live |-> FALSE, tool |-> None, args |-> <<>>, app_name |-> None,
   user_id |-> None, session_id |-> None, key |-> None]

(***************************************************************************)
(* ToolCache: the methods.                                                 *)
(***************************************************************************)
\* _should_cache_tool
_should_cache_tool(tool_name) ==
  IF tool_config.tool_names.is_none THEN TRUE
  ELSE tool_name \in tool_config.tool_names.names

\* the order of the dict keys as sorted() orders them
KeyOrder(k) ==
  CASE k = "city" -> 1 [] k = "days" -> 2 [] k = "items" -> 3
    [] k = "status" -> 4 [] k = "total" -> 5

\* sorted(items): insertion sort by key
RECURSIVE InsertItem(_, _)
InsertItem(item, sorted) ==
  IF Len(sorted) = 0 THEN <<item>>
  ELSE IF KeyOrder(item[1]) <= KeyOrder(Head(sorted)[1])
       THEN <<item>> \o sorted
       ELSE <<Head(sorted)>> \o InsertItem(item, Tail(sorted))

RECURSIVE SortItems(_)
SortItems(items) ==
  IF Len(items) = 0 THEN <<>>
  ELSE InsertItem(Head(items), SortItems(Tail(items)))

\* json.dumps of a dict of strings and numbers
JsonDumps(items, sort_keys) ==
  LET its == IF sort_keys THEN SortItems(items) ELSE items
      texts == [i \in 1..Len(its) |-> "\"" \o its[i][1] \o "\": " \o its[i][2]]
  IN "{" \o Join(", ", texts) \o "}"

\* json.loads: the dict a text is the JSON of, or a JSONDecodeError
JsonLoads(text) ==
  IF \E d \in ToolResponses : JsonDumps(d, FALSE) = text
  THEN [ok |-> TRUE, value |-> CHOOSE d \in ToolResponses : JsonDumps(d, FALSE) = text]
  ELSE [ok |-> FALSE, value |-> <<>>]

\* ToolCache._build_cache_key: tool name and arguments only
Tool_build_cache_key(tool_name, args, tool_context) ==
  LET p1 == Append(<<>>, "tool:" \o tool_name)
      args_str == JsonDumps(args, TRUE)
      parts == Append(p1, "args:" \o args_str)
  IN Join(" | ", parts)

\* what provider.check may return for a tool call
ToolCachedResponses == {JsonDumps(<< <<"status", "\"ok\"">> >>, FALSE), "plain text"}
ToolCacheEntries == [response : ToolCachedResponses]

\* return values of before_tool_callback on a hit
ToolResult(response) ==
  IF JsonLoads(response).ok
  THEN [kind |-> "dict", items |-> JsonLoads(response).value]
  ELSE [kind |-> "dict", items |-> << <<"result", response>> >>]

\* the record of a step that is no callback call
ToolIdleStep(op, id) ==
  [op |-> op, id |-> id, tool |-> None, app_name |-> None, user_id |-> None,
   session_id |-> None, checked |-> FALSE, check_key |-> None,
   entry |-> NoEntry, ret |-> RetNone,
   stored |-> FALSE, store_key |-> None, store_text |-> None]

\* before_tool_callback, for a ToolContext newly allocated at address id
before_tool_callback(id, tool_name, args, caller) ==
  /\ ~tool_contexts[id].live
  /\ LET ctx == [live |-> TRUE, tool |-> tool_name, args |-> args,
                 app_name |-> caller.app_name, user_id |-> caller.user_id,
                 session_id |-> caller.session_id, key |-> None]
         seen == [ToolIdleStep("before", id) EXCEPT
                    !.tool = tool_name, !.app_name = caller.app_name,
                    !.user_id = caller.user_id, !.session_id = caller.session_id]
     IN IF ~_should_cache_tool(tool_name)
        THEN /\ tool_last' = seen
             /\ tool_contexts' = [tool_contexts EXCEPT ![id] = ctx]
             /\ UNCHANGED _pending_calls
        ELSE LET cache_key == Tool_build_cache_key(tool_name, args, ctx) IN
             \E cache_entry \in {NoEntry} \cup ToolCacheEntries :
               /\ tool_contexts' =
                    [tool_contexts EXCEPT ![id] = [ctx EXCEPT !.key = cache_key]]
               /\ IF cache_entry # NoEntry
                  THEN /\ tool_last' = [seen EXCEPT
                            !.checked = TRUE, !.check_key = cache_key,
                            !.entry = cache_entry,
                            !.ret = ToolResult(cache_entry.response)]
                       /\ UNCHANGED _pending_calls
                  ELSE /\ tool_last' = [seen EXCEPT
                            !.checked = TRUE, !.check_key = cache_key]
                       /\ _pending_calls' =
                            [_pending_calls EXCEPT ![id] = cache_key]
  /\ UNCHANGED <<tool_config, non_tool_vars>>

\* after_tool_callback, for the tool call of the ToolContext at address id
after_tool_callback(id, tool_response) ==
  /\ tool_contexts[id].live
  /\ LET cache_key == _pending_calls[id]
         stores == Truthy(cache_key)
     IN /\ _pending_calls' = [_pending_calls EXCEPT ![id] = None]
        /\ tool_last' = [ToolIdleStep("after", id) EXCEPT
             !.tool = tool_contexts[id].tool,
             !.app_name = tool_contexts[id].app_name,
             !.user_id = tool_contexts[id].user_id,
             !.session_id = tool_contexts[id].session_id,
             !.stored = stores,
             !.store_key = IF stores THEN cache_key ELSE None,
             !.store_text = IF stores THEN JsonDumps(tool_response, FALSE)
                            ELSE None]
  /\ tool_contexts' = [tool_contexts EXCEPT ![id] = NoToolContext]
  /\ UNCHANGED <<tool_config, non_tool_vars>>

\* the tool call ends without after_tool_callback (the tool raised); the
\* ToolContext is freed and its address may be given to a later ToolContext
ToolCallEnds(id) ==
  /\ tool_contexts[id].live
  /\ tool_contexts' = [tool_contexts EXCEPT ![id] = NoToolContext]
  /\ tool_last' = ToolIdleStep("end", id)
  /\ UNCHANGED <<tool_config, _pending_calls, non_tool_vars>>

\* ToolCache.__init__
ToolInit ==
  /\ tool_config \in ToolCallbackConfigs
  /\ _pending_calls = [id \in ToolContextIds |-> None]
  /\ tool_contexts = [id \in ToolContextIds |-> NoToolContext]
  /\ tool_last = ToolIdleStep("init", None)

\* no ToolCache is in use
ToolUnused ==
  /\ tool_config = [tool_names |-> AllTools, include_app_name |-> TRUE,
                    include_user_id |-> TRUE, include_session_id |-> FALSE]
  /\ _pending_calls = [id \in ToolContextIds |-> None]
  /\ tool_contexts = [id \in ToolContextIds |-> NoToolContext]
  /\ tool_last = ToolIdleStep("init", None)

ToolNext ==
  \/ \E id \in ToolContextIds, t \in ToolNames, a \in ToolArgs, c \in ToolCallers :
       before_tool_callback(id, t, a, c)
  \/ \E id \in ToolContextIds, r \in ToolResponses : after_tool_callback(id, r)
  \/ \E id \in ToolContextIds : ToolCallEnds(id)

(***************************************************************************)
(* Hybrid search: packaging.version.parse and the comparison of versions.  *)
(***************************************************************************)
DigitChars == {"0", "1", "2", "3", "4", "5", "6", "7", "8", "9"}

DigitValue(c) ==
  CASE c = "0" -> 0 [] c = "1" -> 1 [] c = "2" -> 2 [] c = "3" -> 3
    [] c = "4" -> 4 [] c = "5" -> 5 [] c = "6" -> 6 [] c = "7" -> 7
    [] c = "8" -> 8 [] c = "9" -> 9

CharAt(s, i) == SubSeq(s, i, i)

\* the digits of s from position i on, as a number, and the position after them
RECURSIVE ReadInt(_, _, _)
ReadInt(s, i, acc) ==
  IF i <= Len(s) /\ CharAt(s, i) \in DigitChars
  THEN ReadInt(s, i + 1, acc * 10 + DigitValue(CharAt(s, i)))
  ELSE [value |-> acc, next |-> i]

\* the release segment N(.N)* of s from position i on
RECURSIVE ReadRelease(_, _, _)
ReadRelease(s, i, release) ==
  LET n == ReadInt(s, i, 0) IN
  IF n.next = i
  THEN [ok |-> FALSE, release |-> <<>>, next |-> i]
  ELSE IF /\ n.next + 1 <= Len(s)
          /\ CharAt(s, n.next) = "."
          /\ CharAt(s, n.next + 1) \in DigitChars
       THEN ReadRelease(s, n.next + 1, Append(release, n.value))
       ELSE [ok |-> TRUE, release |-> Append(release, n.value), next |-> n.next]

\* the phase of a version: a, b, rc pre-releases come before the final release
FinalPhase == [rank |-> 3, n |-> 0]

\* the pre-release segment (a|b|rc)N of s from position i to the end
ReadPre(s, i) ==
  LET tag == IF i + 1 <= Len(s) /\ SubSeq(s, i, i + 1) = "rc" THEN "rc"
             ELSE IF CharAt(s, i) \in {"a", "b"} THEN CharAt(s, i)
             ELSE ""
      n == ReadInt(s, i + Len(tag), 0)
  IN IF tag = "" \/ n.next # Len(s) + 1
     THEN [ok |-> FALSE, phase |-> FinalPhase]
     ELSE [ok |-> TRUE,
           phase |-> [rank |-> CASE tag = "a" -> 0 [] tag = "b" -> 1 [] tag = "rc" -> 2,
                      n |-> n.value]]

\* packaging.version.parse: ok = FALSE is InvalidVersion raised
parse(s) ==
  LET r == ReadRelease(s, 1, <<>>) IN
  IF ~r.ok THEN [ok |-> FALSE, release |-> <<>>, phase |-> FinalPhase]
  ELSE IF r.next = Len(s) + 1
       THEN [ok |-> TRUE, release |-> r.release, phase |-> FinalPhase]
       ELSE [ok |-> ReadPre(s, r.next).ok, release |-> r.release,
             phase |-> ReadPre(s, r.next).phase]

\* the release with its trailing zeros dropped, as Version compares it
RECURSIVE StripZeros(_)
StripZeros(release) ==
  IF Len(release) > 0 /\ release[Len(release)] = 0
  THEN StripZeros(SubSeq(release, 1, Len(release) - 1))
  ELSE release

\* tuple comparison
RECURSIVE TupleLess(_, _)
TupleLess(a, b) ==
  IF Len(b) = 0 THEN FALSE
  ELSE IF Len(a) = 0 THEN TRUE
  ELSE IF Head(a) < Head(b) THEN TRUE
  ELSE IF Head(a) > Head(b) THEN FALSE
  ELSE TupleLess(Tail(a), Tail(b))

\* a variant with <= in place of <
VersionLess_OrEqual(a, b) ==
  \/ TupleLess(StripZeros(a.release), StripZeros(b.release))
  \/ /\ StripZeros(a.release) = StripZeros(b.release)
     /\ \/ a.phase.rank <= b.phase.rank
        \/ a.phase.rank = b.phase.rank /\ a.phase.n <= b.phase.n

\* Version.__lt__
VersionLess(a, b) ==
  \/ TupleLess(StripZeros(a.release), StripZeros(b.release))
  \/ /\ StripZeros(a.release) = StripZeros(b.release)
     /\ \/ a.phase.rank < b.phase.rank
        \/ a.phase.rank = b.phase.rank /\ a.phase.n < b.phase.n

(***************************************************************************)
(* Hybrid search: the installation.                                        *)
(***************************************************************************)
_MIN_NATIVE_HYBRID_VERSION == "0.13.0"
_MIN_REDIS_SERVER_VERSION == "8.4.0"

\* redisvl.__version__ values
RedisVLVersions ==
  {"0.4", "0.9.9", "0.12.0", "0.13.0rc1", "0.13", "0.13.0", "0.13.1", "1.0.0",
   "", "unknown"}

\* "redis_version" values of INFO server
RedisServerVersions ==
  {"6.2.14", "7.2.0", "8.3.9", "8.4.0rc1", "8.4", "8.4.0", "8.10.0", "10.0.0",
   "255.255.255", "", "8.x"}

\* the redisvl module: importable or not, with __version__ or without
RedisVLModules ==
  [importable : {TRUE}, version : RedisVLVersions \cup {None}]
  \cup {[importable |-> FALSE, version |-> None]}

\* the reply of client.info("server"): it raises, it is a coroutine (an async
\* client), or it is a dict with or without "redis_version"
InfoRaises == [kind |-> "raises", redis_version |-> None]
InfoCoroutine == [kind |-> "coroutine", redis_version |-> None]
InfoDicts == [kind : {"dict"}, redis_version : RedisServerVersions \cup {None}]

\* the index: a SearchIndex whose _redis_client raises, is None or is a client,
\* or an AsyncSearchIndex whose client is None or an async client
NoInfo == InfoRaises
Indexes ==
  [type : {"SearchIndex"}, client : {"raises", "none"}, info : {NoInfo}]
  \cup [type : {"SearchIndex"}, client : {"ok"}, info : {InfoRaises} \cup InfoDicts]
  \cup [type : {"AsyncSearchIndex"}, client : {"none"}, info : {NoInfo}]
  \cup [type : {"AsyncSearchIndex"}, client : {"ok"}, info : {InfoCoroutine}]

(***************************************************************************)
(* Hybrid search: version detection.                                       *)
(***************************************************************************)
\* the result of a call: a value returned or an exception raised
Returned(v) == [raised |-> "", value |-> v, message |-> ""]
Raised(exc, message) == [raised |-> exc, value |-> FALSE, message |-> message]

\* _get_redisvl_version
_get_redisvl_version(redisvl) ==
  IF ~redisvl.importable THEN "0.0.0"
  ELSE IF redisvl.version = None THEN "0.0.0"
  ELSE redisvl.version

\* a variant whose info.get has no default
_get_redis_server_version_NoDefault(index) ==
  IF index.client = "raises" THEN "0.0.0"
  ELSE IF index.client = "none" THEN "0.0.0"
  ELSE IF index.info.kind # "dict" THEN "0.0.0"
  ELSE IF index.info.redis_version = None THEN "None"
  ELSE index.info.redis_version

\* _get_redis_server_version
_get_redis_server_version(index) ==
  IF index.client = "raises" THEN "0.0.0"
  ELSE IF index.client = "none" THEN "0.0.0"
  ELSE IF index.info.kind # "dict" THEN "0.0.0"
  ELSE IF index.info.redis_version = None THEN "0.0.0"
  ELSE index.info.redis_version

\* try: parse(version) < parse(minimum) ... except Exception: return False
\* (value TRUE is the 'return False' of _supports_native_hybrid)
VersionTooOld(version, minimum) ==
  IF ~parse(version).ok \/ ~parse(minimum).ok THEN Returned(TRUE)
  ELSE Returned(VersionLess(parse(version), parse(minimum)))

\* _supports_native_hybrid
_supports_native_hybrid(env) ==
  LET redisvl_version == _get_redisvl_version(env.redisvl)
      first == VersionTooOld(redisvl_version, _MIN_NATIVE_HYBRID_VERSION)
  IN IF first.raised # "" THEN first
     ELSE IF first.value THEN Returned(FALSE)
     ELSE LET redis_version == _get_redis_server_version(env.index)
              second == VersionTooOld(redis_version, _MIN_REDIS_SERVER_VERSION)
          IN IF second.raised # "" THEN second
             ELSE IF second.value THEN Returned(FALSE)
             ELSE Returned(TRUE)

(***************************************************************************)
(* Hybrid search: RedisHybridSearchTool.__init__.                          *)
(***************************************************************************)
HybridConfigs == {"RedisHybridQueryConfig", "RedisAggregatedHybridQueryConfig"}

\* no tool has been constructed
NoTool ==
  [built |-> FALSE, _supports_native |-> FALSE, _use_native |-> FALSE,
   _config |-> None]

\* the record of what a call did: its argument, what it returned or raised,
\* the warnings it emitted and the tool it produced
HybridStep(op, arg, result, warnings, tool) ==
  [op |-> op, arg |-> arg, result |-> result, warnings |-> warnings,
   tool |-> tool]

\* the message of the ValueError
RequiresMessage(env) ==
  "RedisHybridQueryConfig requires RedisVL >= 0.13.0 and Redis >= 8.4.0. "
  \o "Installed RedisVL version: " \o _get_redisvl_version(env.redisvl)
  \o ", Redis server version: " \o _get_redis_server_version(env.index)
  \o ". Use RedisAggregatedHybridQueryConfig for older versions."

\* a variant that always picks the native config
AutoConfig_AlwaysNative(supports) == "RedisHybridQueryConfig"

\* the config __init__ picks when none is given
AutoConfig(supports) ==
  IF supports THEN "RedisHybridQueryConfig"
  ELSE "RedisAggregatedHybridQueryConfig"

\* a variant that never raises
RejectsConfig_Never(use_native, supports) == FALSE

\* __init__ raises ValueError
RejectsConfig(use_native, supports) == use_native /\ ~supports

\* a variant that never warns
WarnsDeprecated_Never(use_native, supports) == FALSE

\* __init__ emits the DeprecationWarning
WarnsDeprecated(use_native, supports) == ~use_native /\ supports

\* RedisHybridSearchTool(index=..., vectorizer=..., config=config)
HybridToolInit(config_arg) ==
  LET detected == _supports_native_hybrid(hybrid_env) IN
  IF detected.raised # ""
  THEN /\ hybrid_last' = HybridStep("init", config_arg, detected, <<>>, NoTool)
       /\ UNCHANGED hybrid_tool
  ELSE LET supports == detected.value
           config == IF config_arg = None THEN AutoConfig(supports) ELSE config_arg
           use_native == (config = "RedisHybridQueryConfig")
       IN IF RejectsConfig(use_native, supports)
          THEN /\ hybrid_last' =
                    HybridStep("init", config_arg,
                               Raised("ValueError", RequiresMessage(hybrid_env)),
                               <<>>, NoTool)
               /\ UNCHANGED hybrid_tool
          ELSE LET tool == [built |-> TRUE, _supports_native |-> supports,
                            _use_native |-> use_native, _config |-> config]
               IN /\ hybrid_last' =
                       HybridStep("init", config_arg, Returned(TRUE),
                                  IF WarnsDeprecated(use_native, supports)
                                  THEN <<"DeprecationWarning">> ELSE <<>>,
                                  tool)
                  /\ hybrid_tool' = tool

\* the constructor called with no config, or with a config of either class
ConstructHybridTool(config_arg) ==
  /\ HybridToolInit(config_arg)
  /\ UNCHANGED <<hybrid_env, hybrid_query, non_hybrid_vars>>

\* _supports_native_hybrid(index) called on its own
DetectNativeHybrid ==
  /\ hybrid_last' = HybridStep("detect", None,
                               _supports_native_hybrid(hybrid_env), <<>>, NoTool)
  /\ UNCHANGED <<hybrid_env, hybrid_tool, hybrid_query, non_hybrid_vars>>

\* _get_redis_server_version(index) called on its own
GetRedisServerVersion ==
  /\ hybrid_last' =
       HybridStep("server_version", None,
                  Returned(_get_redis_server_version(hybrid_env.index)), <<>>,
                  NoTool)
  /\ UNCHANGED <<hybrid_env, hybrid_tool, hybrid_query, non_hybrid_vars>>

\* no query has been built
NoQuery == [class |-> None, kwargs |-> {}]

\* RedisHybridQueryConfig.to_query_kwargs: the names of the kwargs
NativeQueryKwargs ==
  {"text", "text_field_name", "vector", "vector_field_name",
   "vector_param_name", "text_scorer", "yield_text_score_as",
   "vector_search_method", "knn_ef_runtime", "range_radius", "range_epsilon",
   "yield_vsim_score_as", "filter_expression", "combination_method",
   "rrf_window", "rrf_constant", "linear_alpha", "yield_combined_score_as",
   "dtype", "num_results", "return_fields", "stopwords", "text_weights"}

\* RedisAggregatedHybridQueryConfig.to_query_kwargs: the names of the kwargs
AggregatedQueryKwargs ==
  {"text", "text_field_name", "vector", "vector_field_name", "text_scorer",
   "alpha", "dtype", "num_results", "return_fields", "stopwords", "dialect",
   "text_weights", "filter_expression"}

\* self._config.to_query_kwargs(...), then query_kwargs["num_results"] = ...
to_query_kwargs(config) ==
  (IF config = "RedisHybridQueryConfig" THEN NativeQueryKwargs
   ELSE AggregatedQueryKwargs) \cup {"num_results"}

\* a variant that picks the class by what the installation supports
_build_query_BySupport(tool) ==
  IF tool._supports_native THEN "HybridQuery" ELSE "AggregateHybridQuery"

\* the class of the query _build_query returns
_build_query(tool) ==
  IF tool._use_native THEN "HybridQuery" ELSE "AggregateHybridQuery"

\* tool._build_query(query_text, embedding) on the constructed tool
BuildQuery ==
  /\ hybrid_tool.built
  /\ hybrid_last' = HybridStep("build_query", None,
                               Returned(_build_query(hybrid_tool)), <<>>,
                               hybrid_tool)
  /\ hybrid_query' = [class |-> _build_query(hybrid_tool),
                      kwargs |-> to_query_kwargs(hybrid_tool._config)]
  /\ UNCHANGED <<hybrid_env, hybrid_tool, non_hybrid_vars>>

\* any installation, no tool yet
HybridInit ==
  /\ hybrid_env \in [redisvl : RedisVLModules, index : Indexes]
  /\ hybrid_tool = NoTool
  /\ hybrid_last = HybridStep("none", None, Returned(FALSE), <<>>, NoTool)
  /\ hybrid_query = NoQuery

\* no hybrid tool is in use
HybridUnused ==
  /\ hybrid_env = [redisvl |-> [importable |-> FALSE, version |-> None],
                   index |-> [type |-> "SearchIndex", client |-> "none",
                              info |-> NoInfo]]
  /\ hybrid_tool = NoTool
  /\ hybrid_last = HybridStep("none", None, Returned(FALSE), <<>>, NoTool)
  /\ hybrid_query = NoQuery

HybridNext ==
  \/ \E c \in HybridConfigs \cup {None} : ConstructHybridTool(c)
  \/ DetectNativeHybrid
  \/ GetRedisServerVersion
  \/ BuildQuery

(***************************************************************************)
(* The search tools: run_async and BaseRedisSearchTool._run_search.        *)
(***************************************************************************)
\* the tools: three VectorizedSearchTool subclasses and the text tool
VectorizedTools ==
  {"RedisVectorSearchTool", "RedisRangeSearchTool", "RedisHybridSearchTool"}
TextTool == "RedisTextSearchTool"

\* the args dict of the LLM's call: "query" missing, None, empty or a text,
\* with or without "num_results" (Missing marks a key the dict does not have)
Missing == "<missing>"
NoArgs == [query |-> Missing, num_results |-> Missing]
SearchArgs ==
  [query : {Missing, None, "", "redis"}, num_results : {Missing}]
  \cup {[query |-> "redis", num_results |-> "3"]}

\* what a call can raise: an Exception, or a BaseException that is not one
\* (asyncio.CancelledError, raised in an awaiting coroutine on cancellation)
NoExc == [class |-> None, is_exception |-> FALSE, str |-> ""]
SearchExceptions ==
  {[class |-> "ConnectionError", is_exception |-> TRUE,
    str |-> "connection refused"],
   [class |-> "CancelledError", is_exception |-> FALSE, str |-> ""]}

\* the outcome of a call: a value returned or an exception raised
Ok(v) == [exc |-> NoExc, value |-> v]
Fail(exc) == [exc |-> exc, value |-> None]

\* what index.query returns: None, no documents, or documents
SearchDocs == {<<>>, <<[id |-> "doc:1"]>>, <<[id |-> "doc:1"], [id |-> "doc:2"]>>}
QueryReplies ==
  {[exc |-> NoExc, is_none |-> TRUE, docs |-> <<>>]}
  \cup [exc : {NoExc}, is_none : {FALSE}, docs : SearchDocs]
  \cup [exc : SearchExceptions, is_none : {FALSE}, docs : {<<>>}]

\* the outcomes of one step of build_query_fn
StepOutcomes == {Ok("done")} \cup {Fail(x) : x \in SearchExceptions}

\* Python truthiness of args.get("query", "")
QueryGiven(args) ==
  args.query # Missing /\ args.query # None /\ args.query # ""

\* _execute_query: one index.query (awaited, or in a thread), then
\* [dict(r) for r in results] if results else []
_execute_query(reply) ==
  IF reply.exc # NoExc THEN Fail(reply.exc)
  ELSE IF reply.is_none \/ reply.docs = <<>> THEN Ok(<<>>)
  ELSE Ok(reply.docs)

\* a variant without the try/except
Caught_Reraised(calls, exc) == [calls |-> calls, out |-> Fail(exc)]

\* except Exception as e: return {"status": "error", "error": str(e)}
Caught(calls, exc) ==
  IF exc.is_exception
  THEN [calls |-> calls, out |-> Ok([status |-> "error", error |-> exc.str])]
  ELSE [calls |-> calls, out |-> Fail(exc)]

\* a variant that only rejects a missing query
_run_search_MissingOnly(args, build, reply) ==
  IF args.query = Missing
  THEN [calls |-> <<>>,
        out |-> Ok([status |-> "error", error |-> "Query text is required."])]
  ELSE IF build.out.exc # NoExc THEN Caught(build.calls, build.out.exc)
  ELSE LET results == _execute_query(reply)
           calls == Append(build.calls, "index.query")
       IN IF results.exc # NoExc THEN Caught(calls, results.exc)
          ELSE [calls |-> calls,
                out |-> Ok([status |-> "success", count |-> Len(results.value),
                            results |-> results.value])]

\* _run_search: build is what build_query_fn does when it is awaited, reply
\* what index.query does when it is called
_run_search(args, build, reply) ==
  IF ~QueryGiven(args)
  THEN [calls |-> <<>>,
        out |-> Ok([status |-> "error", error |-> "Query text is required."])]
  ELSE IF build.out.exc # NoExc THEN Caught(build.calls, build.out.exc)
  ELSE LET results == _execute_query(reply)
           calls == Append(build.calls, "index.query")
       IN IF results.exc # NoExc THEN Caught(calls, results.exc)
          ELSE [calls |-> calls,
                out |-> Ok([status |-> "success", count |-> Len(results.value),
                            results |-> results.value])]

\* VectorizedSearchTool.run_async's build_query_fn: aembed, then _build_query
VectorizedBuild(embed, build) ==
  IF embed.exc # NoExc
  THEN [calls |-> <<"vectorizer.aembed">>, out |-> embed]
  ELSE [calls |-> <<"vectorizer.aembed", "_build_query">>, out |-> build]

\* RedisTextSearchTool.run_async's build_query_fn: to_query_kwargs and TextQuery
TextBuild(build) == [calls |-> <<"TextQuery">>, out |-> build]

\* the record of a run_async
SearchStep(tool, args, embed, build, reply, run) ==
  [tool |-> tool, args |-> args, embed |-> embed, build |-> build,
   reply |-> reply, calls |-> run.calls, out |-> run.out]

\* VectorizedSearchTool.run_async
VectorizedRunAsync(tool, args, embed, build, reply) ==
  /\ search_last' =
       SearchStep(tool, args, embed, build, reply,
                  _run_search(args, VectorizedBuild(embed, build), reply))
  /\ UNCHANGED non_search_vars

\* RedisTextSearchTool.run_async
TextRunAsync(args, build, reply) ==
  /\ search_last' =
       SearchStep(TextTool, args, Ok("unused"), build, reply,
                  _run_search(args, TextBuild(build), reply))
  /\ UNCHANGED non_search_vars

\* no search has run
SearchIdle ==
  [tool |-> None, args |-> NoArgs, embed |-> Ok("unused"),
   build |-> Ok("unused"),
   reply |-> [exc |-> NoExc, is_none |-> TRUE, docs |-> <<>>],
   calls |-> <<>>, out |-> Ok(None)]

SearchInit == search_last = SearchIdle

SearchUnused == search_last = SearchIdle

SearchNext ==
  \/ \E tool \in VectorizedTools, args \in SearchArgs,
        embed \in StepOutcomes, build \in StepOutcomes, reply \in QueryReplies :
       VectorizedRunAsync(tool, args, embed, build, reply)
  \/ \E args \in SearchArgs, build \in StepOutcomes, reply \in QueryReplies :
       TextRunAsync(args, build, reply)

(***************************************************************************)
(* RedisWorkingMemorySessionService: configuration, server and sessions.   *)
(***************************************************************************)
\* the events one behaviour appends at most
MaxAppends == 3

\* RedisWorkingMemorySessionServiceConfig: the fields the methods read
WmConfigs ==
  [default_namespace : {None, "", "ns"}, session_ttl_seconds : {None, "3600"}]

WmAppNames == {"shop"}
WmUserIds == {"u1"}

\* _get_namespace: self._config.default_namespace or app_name
_get_namespace(config, app_name) ==
  IF Truthy(config.default_namespace) THEN config.default_namespace
  ELSE app_name

\* the namespaces and the session ids the server can hold
WmNamespaces == {"ns"} \cup WmAppNames
WmStoredIds == {"s1", "uuid-1"}
WmKeys == WmNamespaces \X WmStoredIds

\* a dict (a set of key-value pairs) or None
NoDict == [is_none |-> TRUE, items |-> {}]
Dict(items) == [is_none |-> FALSE, items |-> items]
WmStates == {NoDict, Dict({}), Dict({<<"lang", "en">>})}

\* "x or {}" of a dict or None
OrEmpty(d) == IF d.is_none THEN {} ELSE d.items

\* a working memory the server does not hold, and one it has just created
NoMemory ==
  [exists |-> FALSE, messages |-> <<>>, data |-> NoDict, ttl_seconds |-> None]
NewMemory ==
  [exists |-> TRUE, messages |-> <<>>, data |-> NoDict, ttl_seconds |-> None]

\* the Session the caller holds: none yet
NoLocalSession ==
  [held |-> FALSE, id |-> None, app_name |-> None, user_id |-> None,
   events |-> <<>>, state |-> {}, last_update_time |-> 0]

\* Session(id=..., app_name=..., user_id=..., events=..., state=...,
\* last_update_time=time.time()): the clock reads 0 until events are appended
Session(id, app_name, user_id, events, state) ==
  [held |-> TRUE, id |-> id, app_name |-> app_name, user_id |-> user_id,
   events |-> events, state |-> state, last_update_time |-> 0]

\* the events _working_memory_response_to_session builds from the messages:
\* the author is "user" for the role "user" and the session id otherwise
RECURSIVE MessagesToEvents(_, _)
MessagesToEvents(messages, session_id) ==
  IF messages = <<>> THEN <<>>
  ELSE <<[author |-> IF Head(messages).role = "user" THEN "user"
                     ELSE session_id,
          text |-> Head(messages).content,
          timestamp |-> Head(messages).created_at]>>
       \o MessagesToEvents(Tail(messages), session_id)

\* _working_memory_response_to_session
_working_memory_response_to_session(session_id, memory, app_name, user_id) ==
  Session(session_id, app_name, user_id,
          MessagesToEvents(memory.messages, session_id), OrEmpty(memory.data))

\* str.strip() of the blanks at both ends
RECURSIVE Strip(_)
Strip(s) ==
  IF Len(s) > 0 /\ CharAt(s, 1) = " " THEN Strip(SubSeq(s, 2, Len(s)))
  ELSE IF Len(s) > 0 /\ CharAt(s, Len(s)) = " "
       THEN Strip(SubSeq(s, 1, Len(s) - 1))
       ELSE s

\* the session_id argument of create_session, and what uuid.uuid4() gives
WmSessionIdArgs == {None, "", "  ", "s1", " s1 "}
Uuids == {"uuid-1"}

\* what a call of a method did to the server: the client calls, in order
WmStep(op, key, calls, result) ==
  [op |-> op, key |-> key, calls |-> calls, result |-> result,
   state |-> NoDict, failed |-> FALSE, exc |-> NoExc]

\* the same, when the last of the client calls raised exc
WmFailedStep(op, key, calls, exc, result) ==
  [WmStep(op, key, calls, result) EXCEPT !.failed = TRUE, !.exc = exc]

\* a call of create_session, with the state argument it was given
WmCreateStep(state, key, calls, result) ==
  [WmStep("create_session", key, calls, result) EXCEPT
     !.state = state, !.failed = result.raised # ""]

\* the results of a method: a Session, None, a list of Sessions, an Event,
\* or a raise
NoEvent == [author |-> None, text |-> "", timestamp |-> 0]
WmReturned(session) ==
  [raised |-> "", is_none |-> FALSE, session |-> session, sessions |-> <<>>,
   event |-> NoEvent, memories |-> <<>>]
WmReturnedNone ==
  [raised |-> "", is_none |-> TRUE, session |-> NoLocalSession,
   sessions |-> <<>>, event |-> NoEvent, memories |-> <<>>]
WmReturnedList(sessions) ==
  [raised |-> "", is_none |-> FALSE, session |-> NoLocalSession,
   sessions |-> sessions, event |-> NoEvent, memories |-> <<>>]
WmReturnedEvent(event) ==
  [raised |-> "", is_none |-> FALSE, session |-> NoLocalSession,
   sessions |-> <<>>, event |-> event, memories |-> <<>>]
WmReturnedMemories(memories) ==
  [raised |-> "", is_none |-> FALSE, session |-> NoLocalSession,
   sessions |-> <<>>, event |-> NoEvent, memories |-> memories]
WmRaised(exc) ==
  [raised |-> exc, is_none |-> FALSE, session |-> NoLocalSession,
   sessions |-> <<>>, event |-> NoEvent, memories |-> <<>>]

\* what a call of the memory server does: it returns, or raises one of these
ServerOutcomes == {NoExc} \cup SearchExceptions

\* a variant whose handler logs and raises again
Swallowed_Reraised(exc, result) == WmRaised(exc.class)

\* except Exception as e: logger.error(...), then the method's result; what
\* is no Exception propagates
Swallowed(exc, result) ==
  IF exc.is_exception THEN result ELSE WmRaised(exc.class)

(***************************************************************************)
(* RedisWorkingMemorySessionService: the methods.                          *)
(***************************************************************************)
\* a call of the MemoryAPIClient: its name, the working memory it names, the
\* memory it puts and the messages it appends
ClientCall(name, key, memory, messages) ==
  [name |-> name, key |-> key, memory |-> memory, messages |-> messages]

GetOrCreate(key) == ClientCall("get_or_create_working_memory", key, NoMemory, <<>>)

\* the server's get_or_create_working_memory: (created, working_memory)
Created(key) == ~wm_backend[key].exists
WorkingMemory(key) == IF Created(key) THEN NewMemory ELSE wm_backend[key]

\* the session id create_session uses: the argument stripped, or a new uuid
CreateSessionId(session_id, uuid) ==
  IF Truthy(session_id) /\ Truthy(Strip(session_id)) THEN Strip(session_id)
  ELSE uuid

\* a variant that writes the initial state whether or not the session is new
WritesInitial_Always(created, state, config) ==
  Truthy(config.session_ttl_seconds) \/ (~state.is_none /\ state.items # {})

\* create_session puts the initial state and TTL
WritesInitial(created, state, config) ==
  /\ created
  /\ Truthy(config.session_ttl_seconds) \/ (~state.is_none /\ state.items # {})

\* working_memory.data = state; working_memory.ttl_seconds = ...
WithInitial(memory, state, config) ==
  [memory EXCEPT
     !.data = IF ~state.is_none /\ state.items # {} THEN state ELSE @,
     !.ttl_seconds = IF Truthy(config.session_ttl_seconds)
                     THEN config.session_ttl_seconds ELSE @]

\* create_session; the backend fails at no call, at get_or_create or at put
create_session(app_name, user_id, state, session_id, uuid, fails) ==
  LET sid == CreateSessionId(session_id, uuid)
      key == <<_get_namespace(wm_config, app_name), sid>>
      existing == _working_memory_response_to_session(
                    sid, WorkingMemory(key), app_name, user_id)
      created == Session(sid, app_name, user_id, <<>>, OrEmpty(state))
      put == ClientCall("put_working_memory", key,
                        WithInitial(WorkingMemory(key), state, wm_config), <<>>)
  IN
  /\ IF fails = "get_or_create"
     THEN /\ wm_last' = WmCreateStep(state, key, <<GetOrCreate(key)>>,
                               WmRaised("ConnectionError"))
          /\ UNCHANGED <<wm_backend, wm_session>>
     ELSE IF ~WritesInitial(Created(key), state, wm_config)
     THEN /\ wm_backend' = [wm_backend EXCEPT ![key] = WorkingMemory(key)]
          /\ wm_session' = IF Created(key) THEN created ELSE existing
          /\ wm_last' = WmCreateStep(state, key, <<GetOrCreate(key)>>,
                               WmReturned(wm_session'))
     ELSE IF fails = "put"
     THEN /\ wm_backend' = [wm_backend EXCEPT ![key] = WorkingMemory(key)]
          /\ wm_last' = WmCreateStep(state, key, <<GetOrCreate(key), put>>,
                               WmRaised("ConnectionError"))
          /\ UNCHANGED wm_session
     ELSE /\ wm_backend' = [wm_backend EXCEPT ![key] = put.memory]
          /\ wm_session' = IF Created(key) THEN created ELSE existing
          /\ wm_last' = WmCreateStep(state, key, <<GetOrCreate(key), put>>,
                               WmReturned(wm_session'))
  /\ UNCHANGED <<wm_config, wm_sent, wm_dict, non_wm_vars>>

\* GetSessionConfig: num_recent_events and after_timestamp, 0 standing for
\* None or 0 (both are skipped), or no config
NoGetConfig == [is_none |-> TRUE, num_recent_events |-> 0, after_timestamp |-> 0]
GetSessionConfigs ==
  {NoGetConfig,
   [is_none |-> FALSE, num_recent_events |-> 1, after_timestamp |-> 0],
   [is_none |-> FALSE, num_recent_events |-> 0, after_timestamp |-> 1]}

\* session.events[-n:]
LastEvents(events, n) ==
  IF n >= Len(events) THEN events
  ELSE SubSeq(events, Len(events) - n + 1, Len(events))

\* [e for e in session.events if e.timestamp > after_timestamp]
RECURSIVE EventsAfter(_, _)
EventsAfter(events, after) ==
  IF events = <<>> THEN <<>>
  ELSE (IF Head(events).timestamp > after THEN <<Head(events)>> ELSE <<>>)
       \o EventsAfter(Tail(events), after)

\* the events get_session keeps under its config
FilterEvents(events, config) ==
  LET recent == IF ~config.is_none /\ config.num_recent_events # 0
                THEN LastEvents(events, config.num_recent_events) ELSE events
  IN IF ~config.is_none /\ config.after_timestamp # 0
     THEN EventsAfter(recent, config.after_timestamp) ELSE recent

\* a variant that reports a session it had to create as not found
GetSessionResult_NoneIfCreated(created, session) ==
  IF created THEN WmReturnedNone ELSE WmReturned(session)

\* get_session returns the session whether it existed or was just created
GetSessionResult(created, session) == WmReturned(session)

\* get_session
get_session(app_name, user_id, session_id, config, exc) ==
  LET key == <<_get_namespace(wm_config, app_name), session_id>>
      found == _working_memory_response_to_session(
                 session_id, WorkingMemory(key), app_name, user_id)
      session == [found EXCEPT !.events = FilterEvents(@, config)]
      result == GetSessionResult(Created(key), session)
  IN
  /\ IF exc # NoExc
     THEN /\ wm_last' = WmFailedStep("get_session", key, <<GetOrCreate(key)>>,
                                     exc, Swallowed(exc, WmReturnedNone))
          /\ UNCHANGED <<wm_backend, wm_session>>
     ELSE /\ wm_backend' = [wm_backend EXCEPT ![key] = WorkingMemory(key)]
          /\ wm_session' = IF result.is_none THEN wm_session ELSE session
          /\ wm_last' = WmStep("get_session", key, <<GetOrCreate(key)>>, result)
  /\ UNCHANGED <<wm_config, wm_sent, wm_dict, non_wm_vars>>

\* the session ids the server reports for a namespace
ReportedIds(namespace) ==
  (IF wm_backend[<<namespace, "s1">>].exists THEN <<"s1">> ELSE <<>>)
  \o (IF wm_backend[<<namespace, "uuid-1">>].exists THEN <<"uuid-1">> ELSE <<>>)

\* one Session per reported id, with empty state and no events
RECURSIVE ListedSessions(_, _, _)
ListedSessions(ids, app_name, user_id) ==
  IF ids = <<>> THEN <<>>
  ELSE <<Session(Head(ids), app_name, user_id, <<>>, {})>>
       \o ListedSessions(Tail(ids), app_name, user_id)

\* a variant that lists for no user instead of raising
list_sessions_result_NoCheck(app_name, user_id, exc) ==
  LET namespace == _get_namespace(wm_config, app_name)
      call == ClientCall("list_sessions", <<namespace, user_id>>, NoMemory, <<>>)
  IN IF exc # NoExc
     THEN WmFailedStep("list_sessions", <<namespace, user_id>>, <<call>>,
                       exc, Swallowed(exc, WmReturnedList(<<>>)))
     ELSE WmStep("list_sessions", <<namespace, user_id>>, <<call>>,
                 WmReturnedList(ListedSessions(ReportedIds(namespace),
                                               app_name, user_id)))

\* what list_sessions does and returns
list_sessions_result(app_name, user_id, exc) ==
  LET namespace == _get_namespace(wm_config, app_name)
      call == ClientCall("list_sessions", <<namespace, user_id>>, NoMemory, <<>>)
  IN IF user_id = None
     THEN WmStep("list_sessions", <<namespace, user_id>>, <<>>,
                 WmRaised("ValueError"))
     ELSE IF exc # NoExc
     THEN WmFailedStep("list_sessions", <<namespace, user_id>>, <<call>>,
                       exc, Swallowed(exc, WmReturnedList(<<>>)))
     ELSE WmStep("list_sessions", <<namespace, user_id>>, <<call>>,
                 WmReturnedList(ListedSessions(ReportedIds(namespace),
                                               app_name, user_id)))

\* list_sessions
list_sessions(app_name, user_id, exc) ==
  /\ wm_last' = list_sessions_result(app_name, user_id, exc)
  /\ UNCHANGED <<wm_config, wm_backend, wm_session, wm_sent, wm_dict,
                 non_wm_vars>>

\* delete_session
delete_session(app_name, user_id, session_id, exc) ==
  LET key == <<_get_namespace(wm_config, app_name), session_id>>
      call == ClientCall("delete_working_memory", key, NoMemory, <<>>)
  IN
  /\ wm_backend' = IF exc # NoExc THEN wm_backend
                   ELSE [wm_backend EXCEPT ![key] = NoMemory]
  /\ wm_last' = IF exc # NoExc
                THEN WmFailedStep("delete_session", key, <<call>>,
                                  exc, Swallowed(exc, WmReturnedNone))
                ELSE WmStep("delete_session", key, <<call>>, WmReturnedNone)
  /\ UNCHANGED <<wm_config, wm_session, wm_sent, wm_dict, non_wm_vars>>

\* the parts of an event's content: text and the thought flag
NoParts == <<>>
EventTextPart(text) == [text |-> text, thought |-> FALSE]
EventThoughtPart(text) == [text |-> text, thought |-> TRUE]
EventParts ==
  {NoParts, <<EventTextPart("hi")>>,
   <<EventThoughtPart("hmm"), EventTextPart("hi"), EventTextPart("there")>>}
EventAuthors == {"user", "agent"}

\* the texts extract_text_from_event joins: the parts with text that are no
\* thoughts
RECURSIVE TextsOf(_)
TextsOf(parts) ==
  IF parts = <<>> THEN <<>>
  ELSE (IF Truthy(Head(parts).text) /\ ~Head(parts).thought
        THEN <<Head(parts).text>> ELSE <<>>)
       \o TextsOf(Tail(parts))

\* a variant that keeps the text of the thought parts
RECURSIVE AllTexts(_)
AllTexts(parts) ==
  IF parts = <<>> THEN <<>>
  ELSE (IF Truthy(Head(parts).text) THEN <<Head(parts).text>> ELSE <<>>)
       \o AllTexts(Tail(parts))

extract_text_from_event_WithThoughts(event) == Join(" ", AllTexts(event.parts))

\* extract_text_from_event
extract_text_from_event(event) == Join(" ", TextsOf(event.parts))

\* MemoryMessage(role=..., content=..., created_at=...)
MemoryMessage(role, content, created_at) ==
  [role |-> role, content |-> content, created_at |-> created_at]

\* a working memory the server holds from an earlier run
StoredMessages ==
  <<MemoryMessage("user", "hi", 1), MemoryMessage("assistant", "hello", 2)>>
StoredMemory ==
  [exists |-> TRUE, messages |-> StoredMessages,
   data |-> Dict({<<"lang", "fr">>}), ttl_seconds |-> "60"]

\* what the server holds when the service starts: nothing, or session "s1"
WmServers ==
  {[key \in WmKeys |-> NoMemory],
   [key \in WmKeys |-> IF key[2] = "s1" THEN StoredMemory ELSE NoMemory]}

\* _event_to_message: the messages of one event, none when it has no text
_event_to_message(event) ==
  IF ~Truthy(extract_text_from_event(event)) THEN <<>>
  ELSE <<MemoryMessage(IF event.author = "user" THEN "user" ELSE "assistant",
                       extract_text_from_event(event), event.timestamp)>>

\* the event as the local session keeps it
LocalEvent(event) ==
  [author |-> event.author, text |-> extract_text_from_event(event),
   timestamp |-> event.timestamp]

\* a variant that sends the whole conversation again
RECURSIVE EventsToMessages(_)
EventsToMessages(events) ==
  IF events = <<>> THEN <<>>
  ELSE (IF Truthy(Head(events).text)
        THEN <<MemoryMessage(IF Head(events).author = "user" THEN "user"
                             ELSE "assistant",
                             Head(events).text, Head(events).timestamp)>>
        ELSE <<>>)
       \o EventsToMessages(Tail(events))

MessagesToSend_All(session, event) ==
  IF _event_to_message(event) = <<>> THEN <<>>
  ELSE EventsToMessages(session.events) \o _event_to_message(event)

\* messages=[message]: the messages one append_event sends
MessagesToSend(session, event) == _event_to_message(event)

\* append_event on the session the caller holds
append_event(author, parts, exc) ==
  LET event == [author |-> author, parts |-> parts,
                timestamp |-> Len(StoredMessages) + Len(wm_sent) + 1]
      session == wm_session
      key == <<_get_namespace(wm_config, session.app_name), session.id>>
      messages == MessagesToSend(session, event)
      call == ClientCall("append_messages_to_working_memory", key, NoMemory,
                         messages)
      calls == IF messages = <<>> THEN <<>> ELSE <<call>>
  IN
  /\ wm_session.held
  /\ Len(wm_sent) < MaxAppends
  /\ wm_session' = [wm_session EXCEPT
                      !.events = Append(@, LocalEvent(event)),
                      !.last_update_time = event.timestamp]
  /\ wm_sent' = Append(wm_sent, [event |-> LocalEvent(event), parts |-> parts,
                                 calls |-> calls])
  /\ wm_backend' =
       IF messages = <<>> \/ exc # NoExc THEN wm_backend
       ELSE [wm_backend EXCEPT
               ![key] = [@ EXCEPT !.exists = TRUE,
                                  !.messages = @ \o messages]]
  /\ wm_last' = IF exc # NoExc /\ calls # <<>>
                THEN WmFailedStep("append_event", key, calls,
                       exc, Swallowed(exc, WmReturnedEvent(LocalEvent(event))))
                ELSE WmStep("append_event", key, calls,
                            WmReturnedEvent(LocalEvent(event)))
  /\ UNCHANGED <<wm_config, wm_dict, non_wm_vars>>

\* service.__dict__: whether a client is cached under "_client", and how
\* often that client's close was called
NoClient == [cached |-> FALSE, close_calls |-> 0]

\* a test caches a client: service.__dict__["_client"] = mock_client
CacheClient ==
  /\ ~wm_dict.cached
  /\ wm_dict' = [cached |-> TRUE, close_calls |-> 0]
  /\ wm_last' = WmStep("cache_client", <<None, None>>, <<>>, WmReturnedNone)
  /\ UNCHANGED <<wm_config, wm_backend, wm_session, wm_sent, non_wm_vars>>

\* close: pass
close ==
  /\ wm_dict' = wm_dict
  /\ wm_last' = WmStep("close", <<None, None>>, <<>>, WmReturnedNone)
  /\ UNCHANGED <<wm_config, wm_backend, wm_session, wm_sent, non_wm_vars>>

CreateSession ==
  \E app_name \in WmAppNames, user_id \in WmUserIds, state \in WmStates,
     session_id \in WmSessionIdArgs, uuid \in Uuids,
     fails \in {"none", "get_or_create", "put"} :
    create_session(app_name, user_id, state, session_id, uuid, fails)

GetSession ==
  \E app_name \in WmAppNames, user_id \in WmUserIds,
     session_id \in WmStoredIds, config \in GetSessionConfigs,
     exc \in ServerOutcomes :
    get_session(app_name, user_id, session_id, config, exc)

ListSessions ==
  \E app_name \in WmAppNames, user_id \in WmUserIds \cup {None},
     exc \in ServerOutcomes :
    list_sessions(app_name, user_id, exc)

DeleteSession ==
  \E app_name \in WmAppNames, user_id \in WmUserIds,
     session_id \in WmStoredIds, exc \in ServerOutcomes :
    delete_session(app_name, user_id, session_id, exc)

AppendSessionEvent ==
  \E author \in EventAuthors, parts \in EventParts, exc \in ServerOutcomes :
    append_event(author, parts, exc)

\* the service after __init__
WmInit ==
  /\ wm_config \in WmConfigs
  /\ wm_backend \in WmServers
  /\ wm_session = NoLocalSession
  /\ wm_sent = <<>>
  /\ wm_dict = NoClient
  /\ wm_last = WmStep("init", <<None, None>>, <<>>, WmReturnedNone)

WmUnused ==
  /\ wm_config = [default_namespace |-> None, session_ttl_seconds |-> None]
  /\ wm_backend = [key \in WmKeys |-> NoMemory]
  /\ wm_session = NoLocalSession
  /\ wm_sent = <<>>
  /\ wm_dict = NoClient
  /\ wm_last = WmStep("init", <<None, None>>, <<>>, WmReturnedNone)

WmNext ==
  \/ CreateSession
  \/ GetSession
  \/ ListSessions
  \/ DeleteSession
  \/ CacheClient
  \/ close

\* the service with the session "s1" the caller got from get_session
WmAppendInit ==
  \E app_name \in WmAppNames, user_id \in WmUserIds, server \in WmServers :
    LET key == <<_get_namespace(wm_config, app_name), "s1">>
        memory == IF server[key].exists THEN server[key] ELSE NewMemory
        session == _working_memory_response_to_session(
                     "s1", memory, app_name, user_id)
    IN /\ wm_config \in WmConfigs
       /\ wm_backend = [server EXCEPT ![key] = memory]
       /\ wm_session = session
       /\ wm_sent = <<>>
       /\ wm_dict = NoClient
       /\ wm_last = WmStep("init", <<None, None>>, <<>>, WmReturnedNone)

(***************************************************************************)
(* RedisLongTermMemoryService.                                             *)
(***************************************************************************)
\* the clients one behaviour creates at most, and the calls of close one
\* client gets at most
MaxClients == 2
MaxCloses == 2

\* RedisLongTermMemoryServiceConfig: the field the methods branch on
LtmConfigs == [default_namespace : {None, "ns"}]

\* the events of the sessions given to add_session_to_memory: by the user
\* or an agent, with no content or no parts, with a thought only, with an
\* empty text, with a text, and with a thought followed by two texts
UserEvent(parts) == [author |-> "user", parts |-> parts]
AgentEvent(parts) == [author |-> "agent", parts |-> parts]
ThoughtAndTexts ==
  <<EventThoughtPart("hmm"), EventTextPart("hi"), EventTextPart("there")>>
LtmSessionEvents ==
  {<<>>,
   <<UserEvent(NoParts)>>,
   <<AgentEvent(<<EventThoughtPart("hmm")>>)>>,
   <<UserEvent(<<EventTextPart("")>>)>>,
   <<UserEvent(<<EventTextPart("hi")>>)>>,
   <<AgentEvent(ThoughtAndTexts)>>,
   <<UserEvent(<<EventTextPart("hi")>>), AgentEvent(ThoughtAndTexts)>>,
   <<AgentEvent(<<EventThoughtPart("hmm")>>), UserEvent(<<EventTextPart("hi")>>)>>,
   <<UserEvent(NoParts), AgentEvent(<<EventThoughtPart("hmm")>>)>>}

\* what search_long_term_memory returns: the texts of results.memories
LtmRecords == {<<>>, <<"likes tea">>, <<"likes tea", "lives in Oslo">>}

\* self._client, a cached_property: the cached client, or a new one that is
\* cached from then on
_client == IF ltm_client # 0 THEN ltm_client ELSE Len(ltm_closed) + 1
ClientsAfterAccess ==
  IF ltm_client # 0 THEN ltm_closed ELSE Append(ltm_closed, 0)

\* _build_working_memory(session).messages
RECURSIVE _build_working_memory(_)
_build_working_memory(events) ==
  IF events = <<>> THEN <<>>
  ELSE (IF ~Truthy(extract_text_from_event(Head(events))) THEN <<>>
        ELSE <<[role |-> IF Head(events).author = "user" THEN "user"
                         ELSE "assistant",
                content |-> extract_text_from_event(Head(events))]>>)
       \o _build_working_memory(Tail(events))

\* a call of the client, and what a method was given, did and returned
LtmCall(name, namespace, messages) ==
  [name |-> name, client |-> _client, namespace |-> namespace,
   messages |-> messages]
LtmStep(op, events, calls, exc, result) ==
  [op |-> op, events |-> events, calls |-> calls, exc |-> exc,
   result |-> result]

\* add_session_to_memory
add_session_to_memory(app_name, events, exc) ==
  LET messages == _build_working_memory(events)
      namespace == _get_namespace(ltm_config, app_name)
      call == LtmCall("put_working_memory", namespace, messages)
  IN
  /\ messages = <<>> \/ ltm_client # 0 \/ Len(ltm_closed) < MaxClients
  /\ IF messages = <<>>
     THEN /\ ltm_last' = LtmStep("add_session_to_memory", events, <<>>, NoExc,
                                 WmReturnedNone)
          /\ UNCHANGED <<ltm_client, ltm_closed>>
     ELSE /\ ltm_client' = _client
          /\ ltm_closed' = ClientsAfterAccess
          /\ ltm_last' = LtmStep("add_session_to_memory", events, <<call>>, exc,
                                 IF exc = NoExc THEN WmReturnedNone
                                 ELSE Swallowed(exc, WmReturnedNone))
  /\ UNCHANGED <<ltm_config, non_ltm_vars>>

\* search_memory
search_memory(app_name, records, exc) ==
  LET namespace == _get_namespace(ltm_config, app_name)
      call == LtmCall("search_long_term_memory", namespace, <<>>)
  IN
  /\ ltm_client # 0 \/ Len(ltm_closed) < MaxClients
  /\ ltm_client' = _client
  /\ ltm_closed' = ClientsAfterAccess
  /\ ltm_last' = LtmStep("search_memory", <<>>, <<call>>, exc,
                         IF exc = NoExc THEN WmReturnedMemories(records)
                         ELSE Swallowed(exc, WmReturnedMemories(<<>>)))
  /\ UNCHANGED <<ltm_config, non_ltm_vars>>

\* a variant that closes the client and keeps it cached
ClientAfterClose_Kept(exc) == ltm_client

\* del self._client, which a raise of self._client.close() skips
ClientAfterClose(exc) == IF exc = NoExc THEN 0 ELSE ltm_client

\* RedisLongTermMemoryService.close
LongTermMemory_close(exc) ==
  IF ltm_client = 0
  THEN /\ ltm_last' = LtmStep("close", <<>>, <<>>, NoExc, WmReturnedNone)
       /\ UNCHANGED <<ltm_config, ltm_client, ltm_closed, non_ltm_vars>>
  ELSE /\ ltm_closed[ltm_client] < MaxCloses
       /\ ltm_closed' = [ltm_closed EXCEPT ![ltm_client] = @ + 1]
       /\ ltm_client' = ClientAfterClose(exc)
       /\ ltm_last' = LtmStep("close", <<>>, <<LtmCall("close", None, <<>>)>>,
                              exc,
                              IF exc = NoExc THEN WmReturnedNone
                              ELSE WmRaised(exc.class))
       /\ UNCHANGED <<ltm_config, non_ltm_vars>>

AddSessionToMemory ==
  \E app_name \in WmAppNames, events \in LtmSessionEvents,
     exc \in ServerOutcomes :
    add_session_to_memory(app_name, events, exc)

SearchMemory ==
  \E app_name \in WmAppNames, records \in LtmRecords, exc \in ServerOutcomes :
    search_memory(app_name, records, exc)

CloseLongTermMemory == \E exc \in ServerOutcomes : LongTermMemory_close(exc)

\* the service after __init__: no client yet
LtmInit ==
  /\ ltm_config \in LtmConfigs
  /\ ltm_client = 0
  /\ ltm_closed = <<>>
  /\ ltm_last = LtmStep("init", <<>>, <<>>, NoExc, WmReturnedNone)

LtmUnused ==
  /\ ltm_config = [default_namespace |-> None]
  /\ ltm_client = 0
  /\ ltm_closed = <<>>
  /\ ltm_last = LtmStep("init", <<>>, <<>>, NoExc, WmReturnedNone)

LtmNext ==
  \/ AddSessionToMemory
  \/ SearchMemory
  \/ CloseLongTermMemory

(***************************************************************************)
(* The search tools: the runtime arguments of a query.                     *)
(***************************************************************************)
\* most queries built on one tool
MaxBuilds == 2

\* the tools, the hybrid tool with either query class
BuildTools ==
  [name : VectorizedTools \cup {TextTool}, _use_native : {FALSE}]
  \cup {[name |-> "RedisHybridSearchTool", _use_native |-> TRUE]}

\* the config's num_results and, read by the range tool, distance_threshold
QueryConfigs ==
  [num_results : {"5", "10"}, distance_threshold : {"0.2", "0.3"}]

\* the args dict of the LLM's call: "num_results" and "distance_threshold"
\* missing, None or a value
QueryArgs ==
  [query : {"redis"}, num_results : {Missing, None, "15"},
   distance_threshold : {Missing, None, "0.5"}]

\* a variant that never reads the dict
kwargs_get_Default(kwargs, key, default) == default

\* kwargs.get(key, default)
kwargs_get(kwargs, key, default) ==
  IF kwargs[key] # Missing THEN kwargs[key] ELSE default

\* RedisVectorSearchTool._build_query: the VectorQuery's arguments
Vector_build_query(config, kwargs) ==
  [class |-> "VectorQuery",
   num_results |-> kwargs_get(kwargs, "num_results", config.num_results),
   distance_threshold |-> Missing]

\* RedisRangeSearchTool._build_query: the VectorRangeQuery's arguments
Range_build_query(config, kwargs) ==
  [class |-> "VectorRangeQuery",
   num_results |-> config.num_results,
   distance_threshold |->
     kwargs_get(kwargs, "distance_threshold", config.distance_threshold)]

\* RedisHybridSearchTool._build_query: the query's class and arguments
Hybrid_build_query(tool, config, kwargs) ==
  [class |-> _build_query(tool),
   num_results |-> kwargs_get(kwargs, "num_results", config.num_results),
   distance_threshold |-> Missing]

\* RedisTextSearchTool.run_async's build_query_fn: the TextQuery's arguments
Text_build_query_fn(config, args) ==
  [class |-> "TextQuery",
   num_results |-> IF args.num_results # Missing THEN args.num_results
                   ELSE config.num_results,
   distance_threshold |-> Missing]

\* the record of one built query
QueryBuilt(args, query) ==
  [args |-> args, query |-> query, config |-> build_config]

\* VectorizedSearchTool.run_async's self._build_query(query_text, embedding,
\* **args) on the vector tool
VectorBuildQuery(args) ==
  /\ build_tool.name = "RedisVectorSearchTool"
  /\ Len(build_log) < MaxBuilds
  /\ build_log' =
       Append(build_log, QueryBuilt(args, Vector_build_query(build_config, args)))
  /\ UNCHANGED <<build_tool, build_config, non_build_vars>>

\* the same call on the range tool
RangeBuildQuery(args) ==
  /\ build_tool.name = "RedisRangeSearchTool"
  /\ Len(build_log) < MaxBuilds
  /\ build_log' =
       Append(build_log, QueryBuilt(args, Range_build_query(build_config, args)))
  /\ UNCHANGED <<build_tool, build_config, non_build_vars>>

\* the same call on the hybrid tool
HybridBuildQuery(args) ==
  /\ build_tool.name = "RedisHybridSearchTool"
  /\ Len(build_log) < MaxBuilds
  /\ build_log' =
       Append(build_log,
              QueryBuilt(args, Hybrid_build_query(build_tool, build_config, args)))
  /\ UNCHANGED <<build_tool, build_config, non_build_vars>>

\* RedisTextSearchTool.run_async's build_query_fn(query_text, args)
TextBuildQuery(args) ==
  /\ build_tool.name = TextTool
  /\ Len(build_log) < MaxBuilds
  /\ build_log' =
       Append(build_log, QueryBuilt(args, Text_build_query_fn(build_config, args)))
  /\ UNCHANGED <<build_tool, build_config, non_build_vars>>

\* a tool constructed with a config; no query built yet
BuildInit ==
  /\ build_tool \in BuildTools
  /\ build_config \in QueryConfigs
  /\ build_log = <<>>

BuildUnused ==
  /\ build_tool = [name |-> TextTool, _use_native |-> FALSE]
  /\ build_config = [num_results |-> "10", distance_threshold |-> "0.2"]
  /\ build_log = <<>>

BuildNext ==
  \/ \E args \in QueryArgs : VectorBuildQuery(args)
  \/ \E args \in QueryArgs : RangeBuildQuery(args)
  \/ \E args \in QueryArgs : HybridBuildQuery(args)
  \/ \E args \in QueryArgs : TextBuildQuery(args)

(***************************************************************************)
(* The specifications.                                                     *)
(***************************************************************************)
vars == <<llm_vars, tool_vars, key_vars, hybrid_vars, search_vars, wm_vars, ltm_vars, build_vars>>

\* the arguments of the two _build_cache_key calls
KeyInit ==
  /\ key_in \in [config : LLMResponseCacheConfig, a : KeySessions,
                  b : KeySessions, prompt : KeyPrompts]
  /\ key_out = [done |-> FALSE, a |-> None, b |-> None]

\* _build_cache_key is not being called
KeyUnused ==
  /\ key_in = [config |-> [first_message_only |-> TRUE, include_app_name |-> TRUE,
                           include_user_id |-> TRUE, include_session_id |-> FALSE],
               a |-> NoSession, b |-> NoSession, prompt |-> "hi"]
  /\ key_out = [done |-> FALSE, a |-> None, b |-> None]

\* LLMResponseCache.__init__, for any configuration; sessions start empty
LlmInit ==
  /\ llm_config \in CallbackConfigs
  /\ session_events = [c \in Sessions |-> <<>>]
  /\ _pending_prompts = [k \in SessionKeys |-> None]
  /\ inflight = [c \in CallbackContexts |-> NoRequest]
  /\ llm_last = LlmIdle("init", NoSession)

\* no LLMResponseCache is in use
LlmUnused ==
  /\ llm_config = [first_message_only |-> TRUE, include_app_name |-> TRUE,
                   include_user_id |-> TRUE, include_session_id |-> FALSE]
  /\ session_events = [c \in Sessions |-> <<>>]
  /\ _pending_prompts = [k \in SessionKeys |-> None]
  /\ inflight = [c \in CallbackContexts |-> NoRequest]
  /\ llm_last = LlmIdle("init", NoSession)

LlmNext ==
  \/ \E ctx \in CallbackContexts, r \in LlmRequests : before_model_callback(ctx, r)
  \/ \E ctx \in CallbackContexts, r \in LlmResponses : after_model_callback(ctx, r)
  \/ \E ctx \in CallbackContexts : ModelCallFails(ctx)
  \/ \E ctx \in Sessions, a \in Authors : AppendEvent(ctx, a)

\* the LLM response cache under its callbacks
Init ==
  /\ LlmInit /\ ToolUnused /\ KeyUnused /\ HybridUnused /\ SearchUnused
  /\ WmUnused /\ LtmUnused /\ BuildUnused
Next == LlmNext
Spec == Init /\ [][Next]_vars

\* the tool cache under its callbacks
InitTool ==
  /\ ToolInit /\ LlmUnused /\ KeyUnused /\ HybridUnused /\ SearchUnused
  /\ WmUnused /\ LtmUnused /\ BuildUnused
NextTool == ToolNext
SpecTool == InitTool /\ [][NextTool]_vars

\* LLMResponseCache._build_cache_key as a function of its arguments
InitKey ==
  /\ KeyInit /\ LlmUnused /\ ToolUnused /\ HybridUnused /\ SearchUnused
  /\ WmUnused /\ LtmUnused /\ BuildUnused
NextKey == BuildKeys
SpecKey == InitKey /\ [][NextKey]_vars

\* the hybrid search tool: version detection and construction
InitHybrid ==
  /\ HybridInit /\ LlmUnused /\ ToolUnused /\ KeyUnused /\ SearchUnused
  /\ WmUnused /\ LtmUnused /\ BuildUnused
NextHybrid == HybridNext
SpecHybrid == InitHybrid /\ [][NextHybrid]_vars

\* the search tools: run_async
InitSearch ==
  /\ SearchInit /\ LlmUnused /\ ToolUnused /\ KeyUnused /\ HybridUnused
  /\ WmUnused /\ LtmUnused /\ BuildUnused
NextSearch == SearchNext
SpecSearch == InitSearch /\ [][NextSearch]_vars

\* the working-memory session service
InitWm ==
  /\ WmInit /\ LlmUnused /\ ToolUnused /\ KeyUnused /\ HybridUnused
  /\ SearchUnused /\ LtmUnused /\ BuildUnused
NextWm == WmNext
SpecWm == InitWm /\ [][NextWm]_vars

\* append_event on a session of the working-memory session service
InitWmAppend ==
  /\ WmAppendInit /\ LlmUnused /\ ToolUnused /\ KeyUnused /\ HybridUnused
  /\ SearchUnused /\ LtmUnused /\ BuildUnused
NextWmAppend == AppendSessionEvent
SpecWmAppend == InitWmAppend /\ [][NextWmAppend]_vars

\* the long-term memory service
InitLtm ==
  /\ LtmInit /\ LlmUnused /\ ToolUnused /\ KeyUnused /\ HybridUnused
  /\ SearchUnused /\ WmUnused /\ BuildUnused
NextLtm == LtmNext
SpecLtm == InitLtm /\ [][NextLtm]_vars

\* the search tools: the query built from the call's arguments
InitBuild ==
  /\ BuildInit /\ LlmUnused /\ ToolUnused /\ KeyUnused /\ HybridUnused
  /\ SearchUnused /\ WmUnused /\ LtmUnused
NextBuild == BuildNext
SpecBuild == InitBuild /\ [][NextBuild]_vars

\* the two memory services side by side. They share no state, so a behaviour
\* runs the methods of one of them only: those of the session service on a
\* session got from get_session, ending with one append_event, or those of
\* the long-term memory service
LtmQuiet == ltm_last.op = "init"
WmQuiet == wm_last.op = "init"
NoAppendYet == wm_sent = <<>>
InitMemory ==
  /\ WmAppendInit /\ LtmInit /\ LlmUnused /\ ToolUnused /\ KeyUnused
  /\ HybridUnused /\ SearchUnused /\ BuildUnused
NextMemory ==
  \/ LtmQuiet /\ NoAppendYet /\ GetSession
  \/ LtmQuiet /\ NoAppendYet /\ ListSessions
  \/ LtmQuiet /\ NoAppendYet /\ DeleteSession
  \/ LtmQuiet /\ NoAppendYet /\ AppendSessionEvent
  \/ WmQuiet /\ AddSessionToMemory
  \/ WmQuiet /\ SearchMemory
  \/ WmQuiet /\ CloseLongTermMemory
SpecMemory == InitMemory /\ [][NextMemory]_vars

(***************************************************************************)
(* Properties of the LLM response cache.                                   *)
(***************************************************************************)
\* the first-message gate lets the call through
GatePasses == ~llm_config.first_message_only \/ llm_last.first

\* C1: with first_message_only = true the provider is checked, and a response
\* is stored, only for a model request made while the session has no event
\* authored by "user"; for every later request before_model_callback returns
\* None without consulting the provider, and that request's response is never
\* stored.
C1_FirstMessageOnlyCaching ==
  llm_config.first_message_only =>
    /\ (llm_last.op = "before" /\ llm_last.checked => llm_last.first)
    /\ (llm_last.op = "before" /\ ~llm_last.first =>
          ~llm_last.checked /\ llm_last.ret = RetNone)
    /\ (llm_last.op = "after" /\ llm_last.stored => llm_last.req_first)

\* the part of C1 about before_model_callback alone
C1_GateOnBefore ==
  llm_config.first_message_only =>
    /\ (llm_last.op = "before" /\ llm_last.checked => llm_last.first)
    /\ (llm_last.op = "before" /\ ~llm_last.first =>
          ~llm_last.checked /\ llm_last.ret = RetNone)

\* the result of a before_model_callback call, as C2 states it
C2_BeforeResult ==
  /\ llm_last.checked <=> (GatePasses /\ llm_last.found)
  /\ IF GatePasses /\ llm_last.found /\ llm_last.entry # NoEntry
     THEN llm_last.ret =
            [kind |-> "LlmResponse", role |-> "model",
             parts |-> <<llm_last.entry.response>>]
     ELSE llm_last.ret = RetNone

\* the pending prompts after a before_model_callback call, as C2 states them
C2_BeforePending ==
  IF llm_last'.checked /\ llm_last'.entry = NoEntry
  THEN /\ _pending_prompts'[_get_session_key(llm_last'.ctx)] = llm_last'.check_key
       /\ llm_last'.check_key \notin {None, ""}
       /\ \A k \in SessionKeys \ {_get_session_key(llm_last'.ctx)} :
            _pending_prompts'[k] = _pending_prompts[k]
  ELSE _pending_prompts' = _pending_prompts

\* C2: before_model_callback returns an LlmResponse (role "model", one text
\* part equal to the cached entry's response) exactly when the gate passes, a
\* user prompt is found and provider.check returns an entry for the built key,
\* and None in every other case; a hit records no pending prompt, a miss
\* records exactly one, the built cache key, under the session key.
C2_BeforeModelCallback ==
  [][llm_last'.op = "before" => C2_BeforeResult' /\ C2_BeforePending]_llm_vars

\* a cache hit served while an earlier miss of the same session is still pending
C2_Witness ==
  /\ llm_last.op = "before"
  /\ llm_last.ret.kind = "LlmResponse"
  /\ llm_last.ret.parts = <<"cached">>
  /\ _pending_prompts[_get_session_key(llm_last.ctx)] # None

\* C3: after_model_callback never calls provider.store for a response that has
\* an error message, a function-call part or no non-empty text part, and it
\* returns None in every case.
C3_AfterModelCallback ==
  llm_last.op = "after" =>
    /\ llm_last.ret = RetNone
    /\ llm_last.stored =>
         /\ ~llm_last.has_error
         /\ ~llm_last.has_fc
         /\ llm_last.has_text
         /\ llm_last.store_text \notin {None, ""}

\* a response with text was stored, and one with text and a function call was not
C3_Witness ==
  /\ llm_last.op = "after"
  /\ llm_last.has_text
  /\ llm_last.has_fc
  /\ ~llm_last.has_error
  /\ llm_last.req_key # None
  /\ ~llm_last.stored

\* the key C6 describes: the parts present, in order, each followed by " | "
KeyAsDescribed(config, prompt, session) ==
  (IF config.include_app_name /\ session # NoSession
     THEN "app:" \o session.app_name \o " | " ELSE "")
  \o (IF config.include_user_id /\ session # NoSession
        THEN "user:" \o session.user_id \o " | " ELSE "")
  \o (IF config.include_session_id /\ session # NoSession
        THEN "session:" \o session.id \o " | " ELSE "")
  \o prompt

\* the default LLMResponseCacheConfig, as far as the key goes
DefaultKeyConfig(config) ==
  config.include_app_name /\ config.include_user_id /\ ~config.include_session_id

\* C6: _build_cache_key returns "app:<app_name>", "user:<user_id>",
\* "session:<id>" (each only when its flag is set and there is a session, in
\* that order) and the prompt, joined by " | "; under the default config the
\* same prompt from the same app and user in two sessions yields one key, and
\* the same prompt from two different users of an app yields two keys.
C6_LlmCacheKey ==
  key_out.done =>
    /\ key_out.a = KeyAsDescribed(key_in.config, key_in.prompt, key_in.a)
    /\ key_out.b = KeyAsDescribed(key_in.config, key_in.prompt, key_in.b)
    /\ DefaultKeyConfig(key_in.config) /\ key_in.a # NoSession /\ key_in.b # NoSession
       /\ key_in.a.app_name = key_in.b.app_name =>
         /\ key_in.a.user_id = key_in.b.user_id => key_out.a = key_out.b
         /\ key_in.a.user_id # key_in.b.user_id => key_out.a # key_out.b

\* two users of one app, under the default config, got two keys for one prompt
C6_Witness ==
  /\ key_out.done
  /\ DefaultKeyConfig(key_in.config)
  /\ key_in.a # NoSession /\ key_in.b # NoSession
  /\ key_in.a.app_name = key_in.b.app_name
  /\ key_in.a.user_id = "u1" /\ key_in.b.user_id = "u1 | x"
  /\ key_in.a.id # key_in.b.id
  /\ key_out.a = "app:shop | user:u1 | x | hi"
  /\ key_out.b = "app:shop | user:u1 | x | x | hi"

(***************************************************************************)
(* Properties of the tool cache.                                           *)
(***************************************************************************)
\* the tool is one tool_names selects for caching
Listed(tool_name) ==
  tool_config.tool_names.is_none \/ tool_name \in tool_config.tool_names.names

\* sub occurs in s
Contains(s, sub) ==
  \E i \in 1..(Len(s) - Len(sub) + 1) : SubSeq(s, i, i + Len(sub) - 1) = sub

\* C4: when tool_names is a set only the tools in it are cached: for a tool not
\* in it the provider is never checked, before_tool_callback returns None and
\* the tool's result is never passed to provider.store; when tool_names is None
\* every tool is cached.
C4_OnlyListedToolsCached ==
  /\ (tool_last.op = "before" /\ ~Listed(tool_last.tool) =>
        ~tool_last.checked /\ tool_last.ret = RetNone)
  /\ (tool_last.op = "after" /\ ~Listed(tool_last.tool) => ~tool_last.stored)
  /\ (tool_last.op = "before" /\ tool_config.tool_names.is_none =>
        tool_last.checked)

\* the part of C4 about before_tool_callback alone
C4_BeforeToolOnly ==
  /\ (tool_last.op = "before" /\ ~Listed(tool_last.tool) =>
        ~tool_last.checked /\ tool_last.ret = RetNone)
  /\ (tool_last.op = "before" /\ tool_config.tool_names.is_none =>
        tool_last.checked)

\* C5: with include_app_name, include_user_id or include_session_id set, the
\* key ToolCache builds for a call includes the app name, the user ID or the
\* session ID; with include_user_id two calls of the same tool with the same
\* arguments for two different users get different keys.
C5_ToolKeyIncludesCaller ==
  /\ tool_last.op = "before" /\ tool_last.checked =>
       /\ tool_config.include_app_name =>
            Contains(tool_last.check_key, "app:" \o tool_last.app_name)
       /\ tool_config.include_user_id =>
            Contains(tool_last.check_key, "user:" \o tool_last.user_id)
       /\ tool_config.include_session_id =>
            Contains(tool_last.check_key, "session:" \o tool_last.session_id)
  /\ tool_config.include_user_id =>
       \A i, j \in ToolContextIds :
         /\ tool_contexts[i].live /\ tool_contexts[j].live
         /\ tool_contexts[i].key # None /\ tool_contexts[j].key # None
         /\ tool_contexts[i].tool = tool_contexts[j].tool
         /\ tool_contexts[i].args = tool_contexts[j].args
         /\ tool_contexts[i].user_id # tool_contexts[j].user_id
         => tool_contexts[i].key # tool_contexts[j].key

\* the second half of C5 alone: two users, same tool, same arguments
C5_TwoUsersTwoKeys ==
  tool_config.include_user_id =>
    \A i, j \in ToolContextIds :
      /\ tool_contexts[i].live /\ tool_contexts[j].live
      /\ tool_contexts[i].key # None /\ tool_contexts[j].key # None
      /\ tool_contexts[i].tool = tool_contexts[j].tool
      /\ tool_contexts[i].args = tool_contexts[j].args
      /\ tool_contexts[i].user_id # tool_contexts[j].user_id
      => tool_contexts[i].key # tool_contexts[j].key


(***************************************************************************)
(* Properties of the hybrid search tool.                                   *)
(***************************************************************************)
\* the version strings of the installation that denote a version >= 0.13.0,
\* and those a server reports that denote a version >= 8.4.0
RedisVLNewEnough == {"0.13", "0.13.0", "0.13.1", "1.0.0"}
ServerNewEnough == {"8.4", "8.4.0", "8.10.0", "10.0.0", "255.255.255"}

\* native hybrid search is supported by the installation
NativeSupported ==
  /\ hybrid_env.redisvl.importable
  /\ hybrid_env.redisvl.version \in RedisVLNewEnough
  /\ hybrid_env.index.client = "ok"
  /\ hybrid_env.index.info.kind = "dict"
  /\ hybrid_env.index.info.redis_version \in ServerNewEnough

\* C7: _supports_native_hybrid(index) never raises, and returns True exactly
\* when the installed RedisVL is >= 0.13.0 and the server version the index's
\* client reports is >= 8.4.0; a version that is lower, undetermined (0.0.0) or
\* unparseable gives False.
C7_SupportsNativeHybrid ==
  hybrid_last.op = "detect" =>
    /\ hybrid_last.result.raised = ""
    /\ hybrid_last.result.value = NativeSupported

\* the detection said True for RedisVL 0.13 on a Redis 10.0.0 server
C7_Witness ==
  /\ hybrid_last.op = "detect"
  /\ hybrid_last.result.value = TRUE
  /\ hybrid_env.redisvl.version = "0.13"
  /\ hybrid_env.index.info.redis_version = "10.0.0"

\* C8: constructed with config=None the tool is built without ValueError and
\* without a warning; it holds a RedisHybridQueryConfig with _use_native True
\* when native hybrid is supported, and a RedisAggregatedHybridQueryConfig with
\* _use_native False when it is not.
C8_AutoDetect ==
  hybrid_last.op = "init" /\ hybrid_last.arg = None =>
    /\ hybrid_last.result.raised = ""
    /\ hybrid_last.warnings = <<>>
    /\ hybrid_last.tool.built
    /\ hybrid_tool = hybrid_last.tool
    /\ NativeSupported =>
         /\ hybrid_last.tool._config = "RedisHybridQueryConfig"
         /\ hybrid_last.tool._use_native
    /\ ~NativeSupported =>
         /\ hybrid_last.tool._config = "RedisAggregatedHybridQueryConfig"
         /\ ~hybrid_last.tool._use_native

\* the constructor given no config picked the native config where supported
C8_Witness ==
  /\ hybrid_last.op = "init"
  /\ hybrid_last.arg = None
  /\ NativeSupported
  /\ hybrid_last.tool._config = "RedisHybridQueryConfig"

StartsWith(s, prefix) ==
  Len(s) >= Len(prefix) /\ SubSeq(s, 1, Len(prefix)) = prefix

\* C9: an explicit RedisHybridQueryConfig where native hybrid is not supported
\* raises ValueError with a message starting "RedisHybridQueryConfig requires"
\* and produces no tool; every tool constructed has _use_native only if it has
\* _supports_native.
C9_NativeConfigRejected ==
  /\ hybrid_last.op = "init" /\ hybrid_last.arg = "RedisHybridQueryConfig"
       /\ ~NativeSupported =>
       /\ hybrid_last.result.raised = "ValueError"
       /\ StartsWith(hybrid_last.result.message, "RedisHybridQueryConfig requires")
       /\ hybrid_last.tool = NoTool
  /\ hybrid_tool.built /\ hybrid_tool._use_native =>
       hybrid_tool._supports_native /\ NativeSupported
  /\ hybrid_last.tool.built /\ hybrid_last.tool._use_native =>
       hybrid_last.tool._supports_native

\* the constructor raised ValueError for a native config on an old server
C9_Witness ==
  /\ hybrid_last.op = "init"
  /\ hybrid_last.arg = "RedisHybridQueryConfig"
  /\ hybrid_env.redisvl.version = "0.13.0"
  /\ hybrid_env.index.info.redis_version = "7.2.0"
  /\ hybrid_last.result.raised = "ValueError"

\* C10: an explicit RedisAggregatedHybridQueryConfig where native hybrid is
\* supported emits exactly one DeprecationWarning and succeeds with _use_native
\* False, and the queries of such a tool are AggregateHybridQuery.
C10_AggregatedConfigWarns ==
  /\ hybrid_last.op = "init"
       /\ hybrid_last.arg = "RedisAggregatedHybridQueryConfig"
       /\ NativeSupported =>
       /\ hybrid_last.result.raised = ""
       /\ hybrid_last.warnings = <<"DeprecationWarning">>
       /\ hybrid_last.tool.built
       /\ hybrid_tool = hybrid_last.tool
       /\ hybrid_last.tool._config = "RedisAggregatedHybridQueryConfig"
       /\ ~hybrid_last.tool._use_native
  /\ hybrid_last.op = "build_query"
       /\ hybrid_tool._config = "RedisAggregatedHybridQueryConfig" =>
       hybrid_last.result.value = "AggregateHybridQuery"

\* the constructor warned once and built an aggregated tool
C10_Witness ==
  /\ hybrid_last.op = "init"
  /\ hybrid_last.arg = "RedisAggregatedHybridQueryConfig"
  /\ NativeSupported
  /\ hybrid_last.warnings = <<"DeprecationWarning">>
  /\ hybrid_tool.built


\* the installed RedisVL alone is >= 0.13.0
RedisVLSupportsNative ==
  /\ hybrid_env.redisvl.importable
  /\ hybrid_env.redisvl.version \in RedisVLNewEnough

\* C11: the installed RedisVL version selects the implementation: with
\* RedisVL >= 0.13.0 the auto-detected tool holds RedisHybridQueryConfig and is
\* native and an explicit RedisAggregatedHybridQueryConfig is warned about; with
\* RedisVL < 0.13.0 the auto-detected tool holds
\* RedisAggregatedHybridQueryConfig and an explicit RedisHybridQueryConfig raises
\* ValueError.
C11_RedisVLVersionSelects ==
  /\ hybrid_last.op = "init" /\ hybrid_last.arg = None /\ RedisVLSupportsNative =>
       /\ hybrid_last.tool.built
       /\ hybrid_last.tool._config = "RedisHybridQueryConfig"
       /\ hybrid_last.tool._use_native
  /\ hybrid_last.op = "init" /\ hybrid_last.arg = None /\ ~RedisVLSupportsNative =>
       /\ hybrid_last.tool.built
       /\ hybrid_last.tool._config = "RedisAggregatedHybridQueryConfig"
       /\ ~hybrid_last.tool._use_native
  /\ hybrid_last.op = "init" /\ hybrid_last.arg = "RedisHybridQueryConfig"
       /\ ~RedisVLSupportsNative =>
       hybrid_last.result.raised = "ValueError"
  /\ hybrid_last.op = "init"
       /\ hybrid_last.arg = "RedisAggregatedHybridQueryConfig"
       /\ RedisVLSupportsNative =>
       hybrid_last.warnings = <<"DeprecationWarning">>

\* the half of C11 for RedisVL < 0.13.0
C11_OldRedisVL ==
  /\ hybrid_last.op = "init" /\ hybrid_last.arg = None /\ ~RedisVLSupportsNative =>
       /\ hybrid_last.tool.built
       /\ hybrid_last.tool._config = "RedisAggregatedHybridQueryConfig"
       /\ ~hybrid_last.tool._use_native
  /\ hybrid_last.op = "init" /\ hybrid_last.arg = "RedisHybridQueryConfig"
       /\ ~RedisVLSupportsNative =>
       hybrid_last.result.raised = "ValueError"


\* the kwargs only HybridQuery takes, and those only AggregateHybridQuery takes
NativeOnlyKwargs ==
  {"vector_param_name", "yield_text_score_as", "vector_search_method",
   "knn_ef_runtime", "range_radius", "range_epsilon", "yield_vsim_score_as",
   "combination_method", "rrf_window", "rrf_constant", "linear_alpha",
   "yield_combined_score_as"}
AggregatedOnlyKwargs == {"alpha", "dialect"}

\* the query just built is of the class the tool's config calls for, with no
\* kwarg of the other config type
QueryMatchesConfig(tool, query) ==
  /\ query.class \in {"HybridQuery", "AggregateHybridQuery"}
  /\ query.class = "HybridQuery" <=> tool._config = "RedisHybridQueryConfig"
  /\ query.class = "HybridQuery" => query.kwargs \cap AggregatedOnlyKwargs = {}
  /\ query.class = "AggregateHybridQuery" =>
       query.kwargs \cap NativeOnlyKwargs = {}

\* C12: every _build_query call on a tool builds a HybridQuery exactly when the
\* tool's config is a RedisHybridQueryConfig and an AggregateHybridQuery
\* otherwise, passes no kwarg of the other config type, and leaves the tool's
\* config and mode as construction fixed them.
C12_QueryPathFixed ==
  [][hybrid_last'.op = "build_query" =>
       /\ hybrid_tool' = hybrid_tool
       /\ hybrid_last'.tool = hybrid_tool
       /\ hybrid_last'.result.value = hybrid_query'.class
       /\ QueryMatchesConfig(hybrid_tool, hybrid_query')]_hybrid_vars

\* a second query built by a tool that holds the aggregated config although
\* native hybrid is supported
C12_Witness ==
  /\ hybrid_last.op = "build_query"
  /\ hybrid_tool._config = "RedisAggregatedHybridQueryConfig"
  /\ hybrid_tool._supports_native
  /\ hybrid_query.class = "AggregateHybridQuery"
  /\ "alpha" \in hybrid_query.kwargs


\* the index's client is available and its info("server") replied with a dict
ServerReplied ==
  /\ hybrid_env.index.client = "ok"
  /\ hybrid_env.index.info.kind = "dict"

\* C13: _get_redis_server_version(index) never raises; it returns the
\* "redis_version" of the client's reply when the client is available and
\* info("server") succeeds, and "0.0.0" when the client is None, when info
\* raises, or when the reply has no redis_version.
C13_GetRedisServerVersion ==
  hybrid_last.op = "server_version" =>
    /\ hybrid_last.result.raised = ""
    /\ ServerReplied /\ hybrid_env.index.info.redis_version # None =>
         hybrid_last.result.value = hybrid_env.index.info.redis_version
    /\ hybrid_env.index.client = "none" => hybrid_last.result.value = "0.0.0"
    /\ hybrid_env.index.client = "ok" /\ hybrid_env.index.info.kind = "raises" =>
         hybrid_last.result.value = "0.0.0"
    /\ ServerReplied /\ hybrid_env.index.info.redis_version = None =>
         hybrid_last.result.value = "0.0.0"

\* the version asked of a client whose reply has no redis_version
C13_Witness ==
  /\ hybrid_last.op = "server_version"
  /\ ServerReplied
  /\ hybrid_env.index.info.redis_version = None
  /\ hybrid_last.result.value = "0.0.0"


(***************************************************************************)
(* Properties of the search tools.                                         *)
(***************************************************************************)
\* a run_async has returned or raised
SearchRan == search_last.tool # None

\* the dict {"status": "error", "error": message} was returned
ReturnedError(message) ==
  /\ search_last.out.exc = NoExc
  /\ DOMAIN search_last.out.value = {"status", "error"}
  /\ search_last.out.value.status = "error"
  /\ search_last.out.value.error = message

\* C14: run_async of every search tool, given args without "query" or with an
\* empty one, returns {"status": "error", "error": "Query text is required."}
\* and calls neither the vectorizer, nor a query builder, nor the index.
C14_QueryRequired ==
  SearchRan /\ search_last.args.query \in {Missing, ""} =>
    /\ ReturnedError("Query text is required.")
    /\ search_last.calls = <<>>

\* the hybrid tool was run with an empty query
C14_Witness ==
  /\ search_last.tool = "RedisHybridSearchTool"
  /\ search_last.args.query = ""
  /\ ReturnedError("Query text is required.")

\* what the steps of the search raised first: embedding (not for the text
\* tool), then query building, then the execution on the index
FirstRaised ==
  IF search_last.tool # TextTool /\ search_last.embed.exc # NoExc
  THEN search_last.embed.exc
  ELSE IF search_last.build.exc # NoExc THEN search_last.build.exc
  ELSE search_last.reply.exc

\* the number of times the index was queried
IndexQueries ==
  Cardinality({i \in DOMAIN search_last.calls :
                 search_last.calls[i] = "index.query"})

\* the dict {"status": "success", "count": n, "results": r} was returned, with
\* n the length of r and r empty when the index returned nothing
ReturnedSuccess ==
  /\ search_last.out.exc = NoExc
  /\ DOMAIN search_last.out.value = {"status", "count", "results"}
  /\ search_last.out.value.status = "success"
  /\ search_last.out.value.count = Len(search_last.out.value.results)
  /\ search_last.reply.is_none => search_last.out.value.results = <<>>
  /\ ~search_last.reply.is_none =>
       search_last.out.value.results = search_last.reply.docs

\* C15 as stated: for a non-empty query _run_search never raises; it returns
\* the success dict when no step raises and {"status": "error", "error":
\* str(e)} when a step raises any exception e, and queries the index at most
\* once.
C15_RunSearchNeverRaises ==
  SearchRan /\ search_last.args.query = "redis" =>
    /\ search_last.out.exc = NoExc
    /\ FirstRaised = NoExc => ReturnedSuccess
    /\ FirstRaised # NoExc => ReturnedError(FirstRaised.str)
    /\ IndexQueries <= 1

\* C15 amended: for a non-empty query _run_search returns the success dict
\* when no step raises and {"status": "error", "error": str(e)} when a step
\* raises an Exception e; an exception that is not an Exception (a
\* BaseException such as asyncio.CancelledError) propagates to the caller; the
\* index is queried at most once.
C15_RunSearchCatchesExceptions ==
  SearchRan /\ search_last.args.query = "redis" =>
    /\ FirstRaised = NoExc => ReturnedSuccess
    /\ FirstRaised # NoExc /\ FirstRaised.is_exception =>
         ReturnedError(FirstRaised.str)
    /\ FirstRaised # NoExc /\ ~FirstRaised.is_exception =>
         search_last.out.exc = FirstRaised
    /\ search_last.out.exc # NoExc => ~search_last.out.exc.is_exception
    /\ IndexQueries <= 1

\* the index raised ConnectionError and the text tool returned it as an error
C15_Witness ==
  /\ search_last.tool = TextTool
  /\ search_last.args.query = "redis"
  /\ search_last.reply.exc.class = "ConnectionError"
  /\ search_last.calls = <<"TextQuery", "index.query">>
  /\ ReturnedError("connection refused")


(***************************************************************************)
(* C16: create_session never overwrites an existing session. When the      *)
(* session id already exists in the namespace, the call issues no          *)
(* put_working_memory, leaves the stored messages, data and TTL as they    *)
(* were, and the Session it returns is built from the stored messages and  *)
(* data, not from the state argument. Only for a session the call created  *)
(* does it write the initial state and TTL: with one put at most, and only *)
(* if the state argument or session_ttl_seconds is set.                    *)
(***************************************************************************)
PutCalls(calls) ==
  Cardinality({i \in DOMAIN calls : calls[i].name = "put_working_memory"})

StateSet(state) == ~state.is_none /\ state.items # {}
TtlSet == wm_config.session_ttl_seconds \notin {None, ""}

BuiltFrom(session, id, memory) ==
  /\ session.id = id
  /\ Len(session.events) = Len(memory.messages)
  /\ \A i \in DOMAIN session.events :
       /\ session.events[i].text = memory.messages[i].content
       /\ session.events[i].timestamp = memory.messages[i].created_at
  /\ session.state = IF memory.data.is_none THEN {} ELSE memory.data.items

C16_CreateNeverOverwrites ==
  [][wm_last'.op = "create_session" =>
       LET key == wm_last'.key
           stored == wm_backend[key]
           result == wm_last'.result
       IN IF stored.exists
          THEN /\ PutCalls(wm_last'.calls) = 0
               /\ wm_backend'[key] = stored
               /\ result.raised = "" =>
                    BuiltFrom(result.session, key[2], stored)
          ELSE /\ PutCalls(wm_last'.calls) <= 1
               /\ PutCalls(wm_last'.calls) = 1 =>
                    StateSet(wm_last'.state) \/ TtlSet
               /\ result.raised = "" =>
                    /\ wm_backend'[key].exists
                    /\ wm_backend'[key].messages = <<>>
                    /\ StateSet(wm_last'.state) =>
                         wm_backend'[key].data = wm_last'.state
                    /\ TtlSet => wm_backend'[key].ttl_seconds =
                                   wm_config.session_ttl_seconds
  ]_wm_vars

\* create_session was given a state for a session the server already held
\* with messages and data, and returned that session
C16_Witness ==
  /\ wm_last.op = "create_session"
  /\ wm_last.result.raised = ""
  /\ StateSet(wm_last.state)
  /\ wm_last.result.session.events # <<>>
  /\ wm_last.result.session.state = {<<"lang", "fr">>}
  /\ wm_last.state.items # {<<"lang", "fr">>}
  /\ wm_backend[wm_last.key] = StoredMemory


(***************************************************************************)
(* C17: get_session on a reachable backend always returns a Session,       *)
(* whether the session existed or the call itself created it. After        *)
(* get_session(S) has returned, S exists in the backend, also when S was   *)
(* never created or had been removed by delete_session; a session the call *)
(* created is returned with no events and empty state.                     *)
(***************************************************************************)
ReturnedSession(step) ==
  /\ step.result.raised = ""
  /\ ~step.result.is_none
  /\ step.result.session.held
  /\ step.result.session.id = step.key[2]

C17_GetSessionGetOrCreate ==
  [][wm_last'.op = "get_session" /\ ~wm_last'.failed =>
       /\ ReturnedSession(wm_last')
       /\ wm_backend'[wm_last'.key].exists
       /\ ~wm_backend[wm_last'.key].exists =>
            /\ wm_last'.result.session.events = <<>>
            /\ wm_last'.result.session.state = {}
  ]_wm_vars

\* get_session returned a session that it had to create: the server has
\* held it without messages, data or TTL since
C17_Witness ==
  /\ wm_last.op = "get_session"
  /\ ~wm_last.failed
  /\ ReturnedSession(wm_last)
  /\ wm_last.result.session.events = <<>>
  /\ wm_backend[wm_last.key] = NewMemory

\* the same after delete_session removed a session that held messages
C17_DeleteThenGet ==
  [][/\ wm_last.op = "delete_session" /\ ~wm_last.failed
     /\ wm_last'.op = "get_session" /\ ~wm_last'.failed
     /\ wm_last'.key = wm_last.key
     => /\ ReturnedSession(wm_last')
        /\ wm_backend'[wm_last'.key] = NewMemory
        /\ wm_last'.result.session.events = <<>>
  ]_wm_vars


(***************************************************************************)
(* C18: list_sessions raises ValueError when user_id is None, before any   *)
(* backend call is made. With a user_id it returns one Session for each    *)
(* session id the backend reports, each with empty state and no events,    *)
(* and it returns an empty list when the backend call fails.               *)
(***************************************************************************)
ServerSessionIds(namespace) ==
  {id \in WmStoredIds : wm_backend[<<namespace, id>>].exists}

C18_WitnessNoUser ==
  /\ wm_last.op = "list_sessions"
  /\ wm_last.key[2] = None
  /\ wm_last.result.raised = "ValueError"


(***************************************************************************)
(* C19: append_event is incremental. Each call sends the backend at most   *)
(* one message, the one converted from the event being appended (role      *)
(* "user" if the event's author is "user", "assistant" otherwise), and     *)
(* never resends earlier events of the session, however many the session   *)
(* holds. After N appends of events that bear text, the backend has        *)
(* received exactly N messages, in the order of the appends.               *)
(***************************************************************************)
\* the messages of the append_messages_to_working_memory calls, in order
RECURSIVE ReceivedMessages(_)
ReceivedMessages(sent) ==
  IF sent = <<>> THEN <<>>
  ELSE (IF Head(sent).calls = <<>> THEN <<>>
        ELSE Head(sent).calls[1].messages)
       \o ReceivedMessages(Tail(sent))

\* the events appended so far that bear text, in order
RECURSIVE TextBearing(_)
TextBearing(sent) ==
  IF sent = <<>> THEN <<>>
  ELSE (IF Head(sent).event.text # "" THEN <<Head(sent).event>> ELSE <<>>)
       \o TextBearing(Tail(sent))

ConvertedFrom(message, event) ==
  /\ message.content = event.text
  /\ message.created_at = event.timestamp
  /\ message.role = IF event.author = "user" THEN "user" ELSE "assistant"

C19_AppendIsIncremental ==
  /\ \A i \in DOMAIN wm_sent :
       /\ Len(wm_sent[i].calls) <= 1
       /\ \A c \in DOMAIN wm_sent[i].calls :
            /\ wm_sent[i].calls[c].name = "append_messages_to_working_memory"
            /\ Len(wm_sent[i].calls[c].messages) = 1
            /\ ConvertedFrom(wm_sent[i].calls[c].messages[1], wm_sent[i].event)
  /\ Len(ReceivedMessages(wm_sent)) = Len(TextBearing(wm_sent))
  /\ \A n \in DOMAIN TextBearing(wm_sent) :
       ConvertedFrom(ReceivedMessages(wm_sent)[n], TextBearing(wm_sent)[n])

\* three events were appended to a session that already held two: two with
\* text, by the user and by the agent, and one without
C19_Witness ==
  /\ Len(wm_sent) = 3
  /\ Len(wm_session.events) = 5
  /\ Len(ReceivedMessages(wm_sent)) = 2
  /\ ReceivedMessages(wm_sent)[1].role = "user"
  /\ ReceivedMessages(wm_sent)[2].role = "assistant"
  /\ ReceivedMessages(wm_sent)[2].content = "hi there"


(***************************************************************************)
(* C20: close() cleans up the client. When a client is cached on the       *)
(* service under _client, close() calls that client's close exactly once   *)
(* and afterwards the service no longer holds the cached client.           *)
(***************************************************************************)
C20_CloseCleansUpClient ==
  [][wm_last'.op = "close" /\ wm_dict.cached =>
       /\ wm_dict'.close_calls = wm_dict.close_calls + 1
       /\ ~wm_dict'.cached
  ]_wm_vars

\* what close() does instead: it leaves the cached client where it is and
\* never calls its close
C20_CloseDoesNothing ==
  [][wm_last'.op = "close" => wm_dict' = wm_dict]_wm_vars


(***************************************************************************)
(* C21: RedisLongTermMemoryService.close() closes the client exactly once  *)
(* if and only if a client had been lazily created, and then drops the     *)
(* cached client. close() on a service whose client was never created, and *)
(* a second close() after the first, do nothing. A later use of the        *)
(* service after close() creates a fresh client and does not reuse the     *)
(* closed one. (The client is dropped once its close has returned: a close *)
(* of the client that raises leaves close() of the service by that raise.) *)
(***************************************************************************)
UsesClient(step) ==
  step.op \in {"search_memory", "add_session_to_memory"} /\ step.calls # <<>>

C21_CloseDropsClient ==
  [][/\ ltm_last'.op = "close" =>
          IF ltm_client # 0
          THEN /\ Len(ltm_closed') = Len(ltm_closed)
               /\ \A c \in DOMAIN ltm_closed :
                    ltm_closed'[c] = ltm_closed[c]
                                       + (IF c = ltm_client THEN 1 ELSE 0)
               /\ ltm_last'.result.raised = "" => ltm_client' = 0
          ELSE /\ ltm_last'.calls = <<>>
               /\ ltm_closed' = ltm_closed
               /\ ltm_client' = 0
               /\ ltm_last'.result.raised = ""
     /\ UsesClient(ltm_last') /\ ltm_client = 0 =>
          /\ ltm_client' \notin DOMAIN ltm_closed
          /\ ltm_client' \in DOMAIN ltm_closed'
          /\ ltm_closed'[ltm_client'] = 0
          /\ \A i \in DOMAIN ltm_last'.calls :
               ltm_last'.calls[i].client = ltm_client'
     /\ UsesClient(ltm_last') /\ ltm_client # 0 =>
          /\ ltm_client' = ltm_client
          /\ ltm_closed' = ltm_closed
  ]_ltm_vars

\* a client was created, closed once and dropped; a search after that runs
\* on a second client, which has not been closed
C21_Witness ==
  /\ ltm_last.op = "search_memory"
  /\ ltm_client = 2
  /\ ltm_closed = <<1, 0>>
  /\ ltm_last.calls[1].client = 2

\* a close() found no client cached, after the first client was closed once
C21_WitnessSecondClose ==
  /\ ltm_last.op = "close"
  /\ ltm_last.calls = <<>>
  /\ ltm_client = 0
  /\ ltm_closed = <<1>>


(***************************************************************************)
(* C22: backend failures are logged and turned into an empty result, never *)
(* propagated to the caller. When the memory server call raises any        *)
(* exception, search_memory returns a SearchMemoryResponse with no         *)
(* memories, add_session_to_memory returns normally, list_sessions returns *)
(* no sessions, get_session returns None, delete_session returns normally, *)
(* and append_event still returns the event, with the event appended to    *)
(* the in-memory session and session.last_update_time set to the event's   *)
(* timestamp.                                                              *)
(***************************************************************************)
SessionMethods ==
  {"list_sessions", "get_session", "delete_session", "append_event"}
MemoryMethods == {"search_memory", "add_session_to_memory"}

\* what the claim promises of a session-service call whose server call raised
SessionFailureHandled ==
  /\ wm_last.result.raised = ""
  /\ wm_last.op = "list_sessions" =>
       ~wm_last.result.is_none /\ wm_last.result.sessions = <<>>
  /\ wm_last.op = "get_session" => wm_last.result.is_none
  /\ wm_last.op = "append_event" =>
       /\ wm_last.result.event = wm_sent[Len(wm_sent)].event
       /\ wm_session.events # <<>>
       /\ wm_session.events[Len(wm_session.events)] = wm_last.result.event
       /\ wm_session.last_update_time = wm_last.result.event.timestamp

\* what it promises of a memory-service call whose server call raised
MemoryFailureHandled ==
  /\ ltm_last.result.raised = ""
  /\ ltm_last.op = "search_memory" =>
       ~ltm_last.result.is_none /\ ltm_last.result.memories = <<>>

\* the claim as stated: for any exception the server call raises
C22_FailuresNeverPropagate ==
  /\ wm_last.op \in SessionMethods /\ wm_last.exc # NoExc =>
       SessionFailureHandled
  /\ ltm_last.op \in MemoryMethods /\ ltm_last.exc # NoExc =>
       MemoryFailureHandled

\* C22 as the code has it: for any exception the server call raises that is
\* an instance of Exception. What is a BaseException only, such as
\* asyncio.CancelledError, propagates to the caller; append_event has by then
\* appended the event to the in-memory session and set last_update_time.
C22_ExceptionsNeverPropagate ==
  /\ wm_last.op \in SessionMethods /\ wm_last.exc # NoExc =>
       IF wm_last.exc.is_exception THEN SessionFailureHandled
       ELSE /\ wm_last.result.raised = wm_last.exc.class
            /\ wm_last.op = "append_event" =>
                 /\ wm_session.events[Len(wm_session.events)]
                      = wm_sent[Len(wm_sent)].event
                 /\ wm_session.last_update_time
                      = wm_sent[Len(wm_sent)].event.timestamp
  /\ ltm_last.op \in MemoryMethods /\ ltm_last.exc # NoExc =>
       IF ltm_last.exc.is_exception THEN MemoryFailureHandled
       ELSE ltm_last.result.raised = ltm_last.exc.class

\* append_event met a ConnectionError of the server on a session that held
\* two events: it returned the event, which is now the third of the session
C22_Witness ==
  /\ wm_last.op = "append_event"
  /\ wm_last.exc.class = "ConnectionError"
  /\ wm_last.result.raised = ""
  /\ Len(wm_session.events) = 3
  /\ wm_last.result.event.text = "hi there"
  /\ wm_session.last_update_time = 3

\* search_memory met a ConnectionError and returned no memories
C22_WitnessSearch ==
  /\ ltm_last.op = "search_memory"
  /\ ltm_last.exc.class = "ConnectionError"
  /\ ltm_last.result.memories = <<>>
  /\ ltm_last.result.raised = ""


(***************************************************************************)
(* C23: thought content is never stored in memory. Every message sent to   *)
(* the memory server by append_event or add_session_to_memory contains     *)
(* only the text of the event's non-thought parts that have non-empty      *)
(* text, joined by single spaces in part order. An event with no content,  *)
(* no parts, or only thought / non-text parts produces no message, and     *)
(* add_session_to_memory makes no put_working_memory call at all when no   *)
(* event of the session yields a message.                                  *)
(***************************************************************************)
\* the text the claim lets through, built from the last part backwards
RECURSIVE SpokenText(_)
SpokenText(parts) ==
  IF parts = <<>> THEN ""
  ELSE LET part == Head(parts)
           rest == SpokenText(Tail(parts))
       IN IF part.thought \/ part.text \in {"", None} THEN rest
          ELSE IF rest = "" THEN part.text
          ELSE part.text \o " " \o rest

\* the texts a session's events let through, one for each event that has one
RECURSIVE SpokenTexts(_)
SpokenTexts(events) ==
  IF events = <<>> THEN <<>>
  ELSE (IF SpokenText(Head(events).parts) = "" THEN <<>>
        ELSE <<SpokenText(Head(events).parts)>>)
       \o SpokenTexts(Tail(events))

C23_ThoughtsNeverStored ==
  /\ \A i \in DOMAIN wm_sent :
       IF SpokenText(wm_sent[i].parts) = ""
       THEN wm_sent[i].calls = <<>>
       ELSE /\ Len(wm_sent[i].calls) = 1
            /\ Len(wm_sent[i].calls[1].messages) = 1
            /\ wm_sent[i].calls[1].messages[1].content
                 = SpokenText(wm_sent[i].parts)
  /\ ltm_last.op = "add_session_to_memory" =>
       IF SpokenTexts(ltm_last.events) = <<>>
       THEN ltm_last.calls = <<>>
       ELSE /\ Len(ltm_last.calls) = 1
            /\ ltm_last.calls[1].name = "put_working_memory"
            /\ Len(ltm_last.calls[1].messages) = Len(SpokenTexts(ltm_last.events))
            /\ \A m \in DOMAIN ltm_last.calls[1].messages :
                 ltm_last.calls[1].messages[m].content
                   = SpokenTexts(ltm_last.events)[m]

\* add_session_to_memory put a session of two events, the agent's with a
\* thought before its two texts: two messages, the second without the thought
C23_Witness ==
  /\ ltm_last.op = "add_session_to_memory"
  /\ Len(ltm_last.events) = 2
  /\ ltm_last.events[2].parts[1].thought
  /\ Len(ltm_last.calls) = 1
  /\ Len(ltm_last.calls[1].messages) = 2
  /\ ltm_last.calls[1].messages[2].content = "hi there"

\* append_event sent the two texts of an event that begins with a thought
C23_WitnessAppend ==
  /\ wm_sent # <<>>
  /\ wm_sent[1].parts[1].thought
  /\ wm_sent[1].calls[1].messages[1].content = "hi there"

\* add_session_to_memory was given events of which none has text to store,
\* and made no call
C23_WitnessNoPut ==
  /\ ltm_last.op = "add_session_to_memory"
  /\ Len(ltm_last.events) = 2
  /\ ltm_last.calls = <<>>


(***************************************************************************)
(* C24: a runtime argument supplied by the LLM overrides the configured    *)
(* value for that one query only. The query that _build_query / run_async  *)
(* builds uses the call's num_results (vector, hybrid and text tools) or   *)
(* distance_threshold (range tool) when the argument is present and the    *)
(* config's value when it is absent, and the tool's stored config is       *)
(* unchanged afterwards, so a later call without the argument uses the     *)
(* configured value again.                                                 *)
(***************************************************************************)
\* the argument the LLM may override on a tool
OverridableArgument(tool) ==
  IF tool.name = "RedisRangeSearchTool" THEN "distance_threshold"
  ELSE "num_results"

\* a call with its argument present uses the argument, one without uses the
\* value the config held before the call
OverrideHonoured(tool, config, call) ==
  LET name == OverridableArgument(tool)
  IN IF call.args[name] = Missing THEN call.query[name] = config[name]
     ELSE call.query[name] = call.args[name]

C24_RuntimeOverrideIsPerCall ==
  [][build_log' # build_log =>
       /\ OverrideHonoured(build_tool, build_config,
                           build_log'[Len(build_log')])
       /\ build_config' = build_config]_vars

\* the vector tool built a query with num_results = "15" given by the call,
\* then one without the argument, which got the config's num_results
C24_Witness ==
  /\ build_tool.name = "RedisVectorSearchTool"
  /\ Len(build_log) = 2
  /\ build_log[1].args.num_results = "15"
  /\ build_log[1].query.num_results = "15"
  /\ build_log[2].args.num_results = Missing
  /\ build_log[2].query.num_results = "5"
  /\ build_config.num_results = "5"

\* the same for the range tool's distance_threshold
C24_WitnessRange ==
  /\ build_tool.name = "RedisRangeSearchTool"
  /\ Len(build_log) = 2
  /\ build_log[1].args.distance_threshold = "0.5"
  /\ build_log[1].query.distance_threshold = "0.5"
  /\ build_log[2].args.distance_threshold = Missing
  /\ build_log[2].query.distance_threshold = "0.2"


(***************************************************************************)
(* C25: pending-prompt pairing within one session. Over any sequence of    *)
(* before_model_callback / after_model_callback calls on one               *)
(* LLMResponseCache, including a miss whose after_model_callback never     *)
(* comes because the model call failed and a before_model_callback that    *)
(* returned early without recording a prompt, every provider.store(key,    *)
(* text) stores the text of the response to the very request whose prompt  *)
(* produced key: a response is never stored under the cache key of an      *)
(* earlier, different request.                                             *)
(***************************************************************************)
\* the response that after_model_callback was given answers the request whose
\* before_model_callback computed req_key (None when it returned early)
C25_PendingPromptPairing ==
  llm_last.op = "after" /\ llm_last.stored =>
    llm_last.store_key = llm_last.req_key

\* what does hold: a response whose own request recorded a key is stored
\* under that key, and a store under another key is a store for a request
\* that recorded none
C25_PairedWhenRecorded ==
  llm_last.op = "after" /\ llm_last.stored /\ llm_last.req_key # None =>
    llm_last.store_key = llm_last.req_key

\* a response stored under the key of an earlier request, with the first
\* message gate off
C25_StaleKeyStored ==
  /\ ~llm_config.first_message_only
  /\ llm_last.op = "after" /\ llm_last.stored
  /\ llm_last.req_key = None
  /\ llm_last.store_text = "ok"

====
